---- MODULE Spec2Model ----
(***************************************************************************)
(* Restaurant-Booking-Agent: the conversation service of the backend       *)
(* (session store, slot merge, prompt selection), the /api/chat route and  *)
(* the VoiceBooking client (date/time window, step machine).               *)
(*                                                                         *)
(* Encoding of JavaScript values.  Every slot value is a TLA+ string:      *)
(*   "null"  JS null            ""     the empty string                    *)
(*   "#0"    the number 0       "#2"   the number 2    "#42" the number 42 *)
(*   "Ann", "Thai", ...         ordinary non-empty strings                 *)
(*   "day+2"  the ISO date string of the day two days after day 0          *)
(*   "t3"     the "HH:MM" string of clock reading 3                        *)
(* A date string is turned into a day number by ParseDate and a time       *)
(* string into a clock reading by ParseTime, as new Date(...) does; NaN is *)
(* the result for a string that is no date.                                *)
(* The model covers one calendar day: `today` does not change, the clock   *)
(* `now` advances within the day.                                          *)
(***************************************************************************)
EXTENDS Integers, Sequences, FiniteSets, TLC

\* ------------------------------------------------------------------ bounds
\* turns processed by the session API
MaxTurns == 2
\* utterances the client sends to the route
MaxSpeech == 1
\* last reading of the clock within the day
MaxClock == 2
\* manual form edits per booking
MaxEdits == 1
\* bookings started by the client (each reset draws a fresh session id)
MaxBookings == 2
\* day numbers tried by the pure date check: 0 .. MaxDay
MaxDay == 9
\* "today" values tried by the pure date check: 0 .. MaxToday
MaxToday == 2

\* forecast entries in a provider response
MaxSamples == 2

\* ------------------------------------------------------- program constants
\* maxDate.setDate(maxDate.getDate() + 5)
BOOKING_WINDOW == 5

\* ------------------------------------------------------------- JS values
Null == "null"
Empty == ""
Zero == "#0"
NumberValues == {"#0", "#2", "#42"}

\* JS truthiness of a slot value: null, "" and 0 are falsy
Truthy(v) == v \notin {Null, Empty, Zero}

\* typeof v === "string"
IsString(v) == v \notin NumberValues /\ v # Null

\* ----------------------------------------------------------- dates, times
NaN == -1000

DateNames ==
  <<"day-2", "day-1", "day+0", "day+1", "day+2", "day+3", "day+4", "day+5",
    "day+6", "day+7", "day+8", "day+9", "day+10", "day+11">>

\* the ISO string of day number n
DateStr(n) == DateNames[n + 3]

\* new Date(s + "T00:00:00"): local midnight of the day, NaN for no date
ParseDate(s) ==
  IF \E i \in 1..Len(DateNames) : DateNames[i] = s
  THEN (CHOOSE i \in 1..Len(DateNames) : DateNames[i] = s) - 3
  ELSE NaN

TimeNames == <<"t0", "t1", "t2", "t3", "t4", "t5">>

TimeStr(n) == TimeNames[n + 1]

\* bookingTime.split(":").map(Number) and setHours(hours, minutes, 0, 0)
ParseTime(s) ==
  IF \E i \in 1..Len(TimeNames) : TimeNames[i] = s
  THEN (CHOOSE i \in 1..Len(TimeNames) : TimeNames[i] = s) - 1
  ELSE NaN

\* JS relational operators on Date values: false as soon as one side is NaN
DateLt(a, b) == a # NaN /\ b # NaN /\ a < b
DateGt(a, b) == a # NaN /\ b # NaN /\ a > b
DateLe(a, b) == a # NaN /\ b # NaN /\ a <= b

\* ------------------------------------------------------------- messages
\* A message is kept in the state as one string; Words gives its lower-cased
\* words, on which the regular expressions of the code are evaluated.

\* utterances of the user
U_HELLO == "hello there"
U_CHANGE == "change something"
U_CHANGE_DATE == "change the date"
\* a userMessage that is not a string (the number 42)
U_NUMBER == "#42"

\* what the user may answer at the weather step and at the final confirmation
U_OUTDOOR == "outdoor please"
U_YES_INSIDE == "yes inside sounds good"
U_YES == "yes"
U_INDOORS == "indoors"
\* answers that match the change pattern and the affirmative pattern
U_NO_RIGHT == "no that is right"
U_YES_CHANGE_DATE == "yes but change the date"

\* replies the response prompt of generateContextualResponse dictates
R_SURE == "Sure!"
R_READY == "Ready, go ahead"
R_WHAT_TO_CHANGE == "What to change?"
R_ASK_NAME == "Great! What name for the reservation?"
R_ASK_GUESTS == "Awesome! How many guests?"
R_ASK_DATE == "Perfect! What date? (Within next 5 days)"
R_ASK_TIME == "Nice! What time?"
R_ASK_CUISINE == "What cuisine do you prefer?"
R_ASK_SPECIAL == "Any special requests or occasions?"
R_ALL_SET == "Perfect! All set."

\* replies of the catch branch of generateContextualResponse
F_ASK_NAME == "Great! What name should I put the reservation under?"
F_ASK_GUESTS == "How many people will be joining?"
F_ASK_DATE == "What day would you like to book?"
F_ASK_TIME == "What time works best for you?"
F_CONFIRM == "Perfect! Let me confirm your booking details."

\* reply of the catch branch of processConversationTurn
FALLBACK_PROMPT == "I'm sorry, could you repeat that?"

\* what the client says itself
C_GREETING ==
  "Hello! Welcome to our restaurant. I'm here to help you book a table. May I have your name please?"
C_PAST_DATE ==
  "Sorry, that date has passed. Please choose today or a future date within the next 5 days."
C_TOO_FAR ==
  "I can only book within the next 5 days. Our weather data is limited. Please choose a date between today and the last day."
C_TIME_PASSED ==
  "For today's bookings, please choose a time after now. What time works for you?"
C_ERROR ==
  "Sorry, I had trouble processing that. Please try again or edit manually."
C_CONFIRM ==
  "Perfect! Let me confirm your reservation. Would you like to change anything, or shall I proceed with this booking?"
C_CHECK_WEATHER == "Let me check the weather for your booking date."
C_WEATHER == "I recommend this seating for your comfort. Would you like to go with it, or would you prefer something different?"
C_NO_WEATHER ==
  "Weather data is not available at the moment. For safety reasons, I recommend indoor seating. Would you prefer indoor or outdoor seating?"
C_WEATHER_FAILED ==
  "Could not fetch weather information. I'll recommend indoor seating."

C_INDOOR_SET == "Great! Indoor seating set."
C_OUTDOOR_SET == "Perfect! Outdoor seating set."
C_EXCELLENT == "Excellent choice!"
C_SEATING_UNCLEAR ==
  "I didn't catch that. Would you prefer indoor or outdoor seating?"
C_WHAT_TO_CHANGE == "No problem! What would you like to change?"
C_PROCEED_UNCLEAR ==
  "I didn't catch that. Should I proceed with the booking, or would you like to change something?"

\* the message fetchWeatherAndRespond posts: `Get weather for ${date} at ${time}`
W_GET_WEATHER == "Get weather for the date at the time"

Words(m) ==
  CASE m = U_HELLO -> <<"hello", "there">>
    [] m = U_CHANGE -> <<"change", "something">>
    [] m = U_CHANGE_DATE -> <<"change", "the", "date">>
    [] m = U_OUTDOOR -> <<"outdoor", "please">>
    [] m = U_YES_INSIDE -> <<"yes", "inside", "sounds", "good">>
    [] m = U_YES -> <<"yes">>
    [] m = U_INDOORS -> <<"indoors">>
    [] m = U_NO_RIGHT -> <<"no", "that", "is", "right">>
    [] m = U_YES_CHANGE_DATE -> <<"yes", "but", "change", "the", "date">>
    [] m = R_SURE -> <<"sure">>
    [] m = R_READY -> <<"ready", "go", "ahead">>
    [] m = R_WHAT_TO_CHANGE -> <<"what", "to", "change">>
    [] m = R_ASK_NAME -> <<"great", "what", "name", "for", "the", "reservation">>
    [] m = R_ASK_GUESTS -> <<"awesome", "how", "many", "guests">>
    [] m = R_ASK_DATE -> <<"perfect", "what", "date", "within", "next", "5", "days">>
    [] m = R_ASK_TIME -> <<"nice", "what", "time">>
    [] m = R_ASK_CUISINE -> <<"what", "cuisine", "do", "you", "prefer">>
    [] m = R_ASK_SPECIAL -> <<"any", "special", "requests", "or", "occasions">>
    [] m = R_ALL_SET -> <<"perfect", "all", "set">>
    [] m = F_ASK_NAME ->
         <<"great", "what", "name", "should", "i", "put", "the",
           "reservation", "under">>
    [] m = F_ASK_GUESTS -> <<"how", "many", "people", "will", "be", "joining">>
    [] m = F_ASK_DATE -> <<"what", "day", "would", "you", "like", "to", "book">>
    [] m = F_ASK_TIME -> <<"what", "time", "works", "best", "for", "you">>
    [] m = F_CONFIRM ->
         <<"perfect", "let", "me", "confirm", "your", "booking", "details">>
    [] m = FALLBACK_PROMPT -> <<"i'm", "sorry", "could", "you", "repeat", "that">>
    [] m = W_GET_WEATHER -> <<"get", "weather", "for", "at">>
    [] OTHER -> <<>>

\* the pattern words that occur inside a word as substrings, besides itself
Inside(w) ==
  CASE w = "guests" -> {"guest"}
    [] w = "requests" -> {"request"}
    [] w = "something" -> {"thing"}
    [] w = "another" -> {"no"}
    [] w = "okay" -> {"ok"}
    [] w = "update" -> {"date"}
    [] w = "indoors" -> {"indoor"}
    [] OTHER -> {}

HasWord(w, pat) == pat = w \/ pat \in Inside(w)

\* /a|b|c/i.test(m) for one-word alternatives: some word of m contains one
RegexTest(alternatives, m) ==
  \E i \in 1..Len(Words(m)) : \E pat \in alternatives : HasWord(Words(m)[i], pat)

\* /a.*b/.test(m): a occurs and b occurs after it
RegexThen(a, b, m) ==
  \E i \in 1..Len(Words(m)) : \E j \in i..Len(Words(m)) :
     /\ HasWord(Words(m)[i], a)
     /\ HasWord(Words(m)[j], b)
     /\ (i = j => a # b)

\* /\b(a|b)\b/.test(m): some word of m is one of the alternatives
WordTest(alternatives, m) ==
  \E i \in 1..Len(Words(m)) : Words(m)[i] \in alternatives

\* utils/voicePatterns.js
isSeatingIndoor(s) == WordTest({"indoor", "inside"}, s)
isSeatingOutdoor(s) == WordTest({"outdoor", "outside"}, s)
userWantsToChange(s) ==
  RegexTest({"change", "edit", "modify", "update", "different", "no", "wait",
             "actually"}, s)
isPositive(s) ==
  RegexTest({"yes", "yeah", "sure", "confirm", "proceed", "ok", "okay",
             "correct", "right", "perfect", "good"}, s)

\* /(date|time|guest|guests|name|cuisine|special)/i.test(lower)
NamesField(s) ==
  RegexTest({"date", "time", "guest", "guests", "name", "cuisine", "special"},
            s)

\* /change|edit|modify|update|different|instead|actually/i
isModifying(userMessage) ==
  RegexTest({"change", "edit", "modify", "update", "different", "instead",
             "actually"}, userMessage)

\* /date|time|guest|guests|name|cuisine|seating|indoor|outdoor|special request/i
specifiesWhatToChange(userMessage) ==
  \/ RegexTest({"date", "time", "guest", "guests", "name", "cuisine",
                "seating", "indoor", "outdoor"}, userMessage)
  \/ \E i \in 1..(Len(Words(userMessage)) - 1) :
        /\ Words(userMessage)[i] = "special"
        /\ HasWord(Words(userMessage)[i + 1], "request")

\* /what.*change|which.*change|what.*like.*change|which.*modify/ on one message
AsksWhatToChange(m) ==
  \/ RegexThen("what", "change", m)
  \/ RegexThen("which", "change", m)
  \/ RegexThen("which", "modify", m)

\* ------------------------------------------------------------ slot model
SlotNames ==
  {"customerName", "numberOfGuests", "bookingDate", "bookingTime",
   "cuisinePreference", "specialRequests", "seatingPreference", "location"}

\* bookingData of a conversation that has just been created
NewBookingData ==
  [customerName |-> Null, numberOfGuests |-> Null, bookingDate |-> Null,
   bookingTime |-> Null, cuisinePreference |-> Null, specialRequests |-> Null,
   seatingPreference |-> Null, location |-> "New Delhi"]

\* const required = [...]
RequiredFields ==
  <<"customerName", "numberOfGuests", "bookingDate", "bookingTime">>

\* a completeness test on null alone
isBookingComplete_NonNull(data) ==
  \A f \in {"customerName", "numberOfGuests", "bookingDate", "bookingTime"} :
    data[f] # "null"

isBookingComplete(data) ==
  /\ Truthy(data.customerName)
  /\ Truthy(data.numberOfGuests)
  /\ Truthy(data.bookingDate)
  /\ Truthy(data.bookingTime)

\* required.filter((field) => !data[field])
getMissingFields(data) ==
  LET IsMissing(field) == ~Truthy(data[field])
  IN  SelectSeq(RequiredFields, IsMissing)

getOptionalMissingFields(data) ==
  (IF ~Truthy(data.cuisinePreference) THEN <<"cuisinePreference">> ELSE <<>>)
  \o (IF ~Truthy(data.specialRequests) THEN <<"specialRequests">> ELSE <<>>)

\* array.includes(x)
Includes(seq, x) == \E i \in 1..Len(seq) : seq[i] = x

\* array.slice(-n)
SliceLast(seq, n) ==
  IF Len(seq) <= n THEN seq ELSE SubSeq(seq, Len(seq) - n + 1, Len(seq))

\* { ...a, ...b }
Spread(a, b) ==
  [f \in (DOMAIN a) \cup (DOMAIN b) |-> IF f \in DOMAIN b THEN b[f] ELSE a[f]]

\* {}
EmptyObject == [f \in {} |-> Null]

\* ------------------------------------------------- conversation service
\* An extraction outcome is what the model call of extractBookingInfo gave:
\*   [kind |-> "ok", parsed |-> the object JSON.parse returned]
\*   [kind |-> "callFailed"]   generateContent rejected
\*   [kind |-> "unparsable"]   JSON.parse threw
\* The object returned: the non-null entries of parsed; {} from the catch.
\* an extraction whose failure returns every slot as the empty string
extractBookingInfo_Blank(outcome) ==
  IF outcome.kind = "ok"
  THEN [f \in {g \in DOMAIN outcome.parsed : outcome.parsed[g] # Null} |->
          outcome.parsed[f]]
  ELSE [f \in {"customerName", "numberOfGuests", "bookingDate", "bookingTime"}
          |-> Empty]

extractBookingInfo(outcome) ==
  IF outcome.kind = "ok"
  THEN [f \in {g \in DOMAIN outcome.parsed : outcome.parsed[g] # Null}
          |-> outcome.parsed[f]]
  ELSE EmptyObject

\* conversation.bookingData = { ...conversation.bookingData, ...updatedData }
\* a merge that replaces the whole slot set
MergeBookingData_Replace(bookingData, updatedData) ==
  Spread(NewBookingData, updatedData)

MergeBookingData(bookingData, updatedData) == Spread(bookingData, updatedData)

\* recentMessages.some(...) over history.slice(-6)
alreadyAskedWhatToChange(history) ==
  \E i \in 1..Len(SliceLast(history, 6)) :
     AsksWhatToChange(SliceLast(history, 6)[i].message)

\* h.message.toLowerCase() throws a TypeError on a message that is no string
ResponseThrows(history) ==
  \E i \in 1..Len(SliceLast(history, 6)) :
     ~IsString(SliceLast(history, 6)[i].message)

\* RESPONSE LOGIC of the prompt: the one reply the prompt dictates.  The
\* model call is taken to say what it is told to say.
ResponseLogic(userMessage, bookingData, history) ==
  LET missingFields == getMissingFields(bookingData)
      optionalFields == getOptionalMissingFields(bookingData)
  IN  IF isModifying(userMessage) /\ specifiesWhatToChange(userMessage)
        THEN R_SURE
      ELSE IF isModifying(userMessage) /\ alreadyAskedWhatToChange(history)
        THEN R_READY
      ELSE IF isModifying(userMessage) THEN R_WHAT_TO_CHANGE
      ELSE IF Includes(missingFields, "customerName") THEN R_ASK_NAME
      ELSE IF Includes(missingFields, "numberOfGuests") THEN R_ASK_GUESTS
      ELSE IF Includes(missingFields, "bookingDate") THEN R_ASK_DATE
      ELSE IF Includes(missingFields, "bookingTime") THEN R_ASK_TIME
      ELSE IF Includes(optionalFields, "cuisinePreference") THEN R_ASK_CUISINE
      ELSE IF Includes(optionalFields, "specialRequests") THEN R_ASK_SPECIAL
      ELSE R_ALL_SET

\* prompts[field] || `Could you tell me your ${field}?`
FallbackPromptFor(field) ==
  CASE field = "customerName" -> F_ASK_NAME
    [] field = "numberOfGuests" -> F_ASK_GUESTS
    [] field = "bookingDate" -> F_ASK_DATE
    [] field = "bookingTime" -> F_ASK_TIME

\* the catch branch of generateContextualResponse
ResponseFallback(bookingData, isComplete) ==
  LET missingFields == getMissingFields(bookingData)
  IN  IF ~isComplete /\ Len(missingFields) > 0
      THEN FallbackPromptFor(missingFields[1])
      ELSE F_CONFIRM

\* generateContextualResponse; generated = the model call answered
generateContextualResponse(userMessage, bookingData, isComplete, history, generated) ==
  IF generated
  THEN ResponseLogic(userMessage, bookingData, history)
  ELSE ResponseFallback(bookingData, isComplete)

\* conversations.get(sessionId), or the conversation created for a new id
GetOrCreate(store, sessionId) ==
  IF sessionId \in DOMAIN store
  THEN store[sessionId]
  ELSE [history |-> <<>>, bookingData |-> NewBookingData]

\* the value processConversationTurn returns
TurnResult(response, bookingData, isComplete) ==
  [response |-> response, bookingData |-> bookingData,
   isComplete |-> isComplete, missingFields |-> getMissingFields(bookingData)]

\* processConversationTurn(sessionId, userMessage), run to its end:
\* [conversation |-> the session afterwards, result |-> the value returned,
\*  threw |-> the try block threw]
processConversationTurn(store, sessionId, userMessage, outcome, generated) ==
  LET conversation == GetOrCreate(store, sessionId)
      history1 == Append(conversation.history,
                         [role |-> "user", message |-> userMessage])
      updatedData == extractBookingInfo(outcome)
      bookingData1 == MergeBookingData(conversation.bookingData, updatedData)
      isComplete == isBookingComplete(bookingData1)
  IN  IF ResponseThrows(history1)
      THEN [conversation |->
              [history |-> history1, bookingData |-> bookingData1],
            result |-> TurnResult(FALLBACK_PROMPT, bookingData1, FALSE),
            threw |-> TRUE]
      ELSE LET response ==
                 generateContextualResponse(userMessage, bookingData1,
                                            isComplete, history1, generated)
           IN  [conversation |->
                  [history |-> Append(history1, [role |-> "assistant",
                                                 message |-> response]),
                   bookingData |-> bookingData1],
                result |-> TurnResult(response, bookingData1, isComplete),
                threw |-> FALSE]

\* a delete that empties the Map
MapDelete_All(store, sessionId) == [k \in {} |-> Null]

\* conversations.delete(sessionId)
MapDelete(store, sessionId) ==
  [k \in (DOMAIN store) \ {sessionId} |-> store[k]]

\* conversations.set(sessionId, conversation)
MapSet(store, sessionId, conversation) ==
  [k \in (DOMAIN store) \cup {sessionId} |->
     IF k = sessionId THEN conversation ELSE store[k]]

\* ------------------------------------------------------------ the inputs
Today == 0

\* the required fields, with date d
RequiredObject(d) ==
  [customerName |-> "Ann", numberOfGuests |-> "#2", bookingDate |-> d]

\* every field the conversation collects
CompleteObject(d, t) ==
  [customerName |-> "Ann", numberOfGuests |-> "#2", bookingDate |-> d,
   bookingTime |-> t, cuisinePreference |-> "Thai", specialRequests |-> "None"]

\* the objects the extraction call may return
ParsedObjects ==
  {EmptyObject}
  \cup {("customerName" :> "Ann") @@ ("numberOfGuests" :> Null)}
  \cup {"numberOfGuests" :> v : v \in {"#2", Zero}}
  \cup {RequiredObject(d) : d \in {DateStr(Today - 1), DateStr(Today)}}
  \cup {"bookingTime" :> TimeStr(1)}
  \cup {"cuisinePreference" :> "Thai", "specialRequests" :> "None"}
  \cup {CompleteObject(DateStr(Today + BOOKING_WINDOW), TimeStr(1))}

ExtractionOutcomes ==
  {[kind |-> "ok", parsed |-> o] : o \in ParsedObjects}
  \cup {[kind |-> "callFailed"], [kind |-> "unparsable"]}

\* the extraction outcomes met while the client talks to the route
ChatParsedObjects ==
  {EmptyObject,
   RequiredObject(DateStr(Today - 1)),
   RequiredObject(DateStr(Today + BOOKING_WINDOW + 1)),
   RequiredObject(DateStr(Today + 1)) @@ ("bookingTime" :> TimeStr(1)),
   CompleteObject(DateStr(Today), TimeStr(1)),
   CompleteObject(DateStr(Today), TimeStr(MaxClock + 1)),
   CompleteObject(DateStr(Today + BOOKING_WINDOW), TimeStr(1))}

\* <<outcome of the extraction call, whether the response call succeeded>>
ChatModelCalls ==
  {<<[kind |-> "ok", parsed |-> o], TRUE>> : o \in ChatParsedObjects}
  \cup {<<[kind |-> "ok", parsed |-> EmptyObject], FALSE>>,
        <<[kind |-> "callFailed"], FALSE>>}

\* what a caller of the session API may pass as userMessage
ApiMessages == {U_HELLO, U_CHANGE, U_CHANGE_DATE, U_NUMBER}

\* ----------------------------------------------------------------- state
VARIABLES
  conversations,  \* the Map of conversationService.js: sessionId -> conversation
  call,           \* the last call of the session API and what it returned
  turns,          \* turns processed so far
  now,            \* the clock within the day
  step,           \* VoiceBooking: useState step
  booking,        \* VoiceBooking: useState booking
  weatherRecommendationGiven,
  lastWeatherCheck,  \* lastWeatherCheckRef.current
  isActive,
  bookingNo,      \* the number of the booking; sessionIdRef.current is its id
  handler,        \* the asynchronous handler in progress, with the state its
                  \* closure captured when it started
  net,            \* the request or the response in flight between the two
  spoken,         \* the last message of the assistant shown and spoken
  heard,          \* the last transcript of the user added to the conversation
  outcome,        \* how the last handler ended (what it logged)
  edits,          \* manual edits made so far
  showContinuePrompt,  \* VoiceBooking: useState showContinuePrompt
  inflight        \* the calls of processConversationTurn suspended at an await,
                  \* and the conversation objects only they still hold

serverVars == <<conversations, call, inflight>>
clientVars ==
  <<step, booking, weatherRecommendationGiven, lastWeatherCheck, isActive,
    bookingNo, handler, net, spoken, heard, outcome, edits, showContinuePrompt>>
vars == <<conversations, call, turns, now, step, booking,
          weatherRecommendationGiven, lastWeatherCheck, isActive, bookingNo,
          handler, net, spoken, heard, outcome, edits, showContinuePrompt,
          inflight>>

NoCall == [op |-> "none"]
Idle == [pc |-> "idle"]
NoNet == [kind |-> "none"]
NoneInFlight == [turns |-> <<>>, orphans |-> <<>>]

\* `session-${Date.now()}`: a fresh id for every booking
SessionNames == <<"session-1", "session-2", "session-3", "session-4">>
sessionId == SessionNames[bookingNo]

\* the booking of a VoiceBooking that has nothing saved
NewBooking ==
  [customerName |-> Empty, numberOfGuests |-> Empty, bookingDate |-> Empty,
   bookingTime |-> Empty, cuisinePreference |-> Empty,
   specialRequests |-> Empty, seatingPreference |-> Empty,
   location |-> "New Delhi", weatherInfo |-> Null]

InitBackend ==
  /\ conversations = [k \in {} |-> Null]
  /\ call = NoCall
  /\ turns = 0
  /\ inflight = NoneInFlight

InitClient ==
  /\ step = "IDLE"
  /\ booking = NewBooking
  /\ weatherRecommendationGiven = FALSE
  /\ lastWeatherCheck = Null
  /\ isActive = FALSE
  /\ bookingNo = 1
  /\ handler = Idle
  /\ net = NoNet
  /\ spoken = Empty
  /\ heard = Empty
  /\ outcome = "none"
  /\ edits = 0
  /\ showContinuePrompt = FALSE

\* ------------------------------------------------- the session API alone
\* processConversationTurn called by a transport layer
ApiTurn(sid) ==
  /\ turns < MaxTurns
  /\ \E userMessage \in ApiMessages, extraction \in ExtractionOutcomes,
        generated \in BOOLEAN :
       LET done == processConversationTurn(conversations, sid, userMessage,
                                           extraction, generated)
       IN  /\ conversations' = MapSet(conversations, sid, done.conversation)
           /\ call' = [op |-> "turn", sessionId |-> sid,
                       before |-> GetOrCreate(conversations, sid),
                       userMessage |-> userMessage, outcome |-> extraction,
                       generated |-> generated, result |-> done.result,
                       threw |-> done.threw]
  /\ turns' = turns + 1
  /\ UNCHANGED <<inflight, now, clientVars>>

\* clearConversation(sessionId)
ApiClear(sid) ==
  /\ sid \in DOMAIN conversations
  /\ conversations' = MapDelete(conversations, sid)
  /\ call' = [op |-> "clear", sessionId |-> sid]
  /\ UNCHANGED <<inflight, turns, now, clientVars>>

InitApi ==
  /\ InitBackend
  /\ InitClient
  /\ now = 1

NextApi ==
  \/ ApiTurn("session-1")
  \/ ApiClear("session-1")

SpecApi == InitApi /\ [][NextApi]_vars

\* ---------------------------------------------------- overlapping turns
\* processConversationTurn is async: a call runs to its first await, and
\* other calls and clearConversation run while it is suspended.  A suspended
\* call holds a reference to its conversation object; ref 0 is the object the
\* Map holds under its sessionId, ref n > 0 the n-th object that
\* clearConversation removed from the Map while a call was holding it.

\* the sessions whose calls overlap
OverlapSessions == {"session-1", "session-2"}

\* what the callers say
OverlapMessages == {U_HELLO, U_NUMBER}

\* what the extraction call may give
OverlapOutcomes ==
  {[kind |-> "ok", parsed |-> o] :
     o \in {("customerName" :> "Ann") @@ ("numberOfGuests" :> Null),
            ("customerName" :> "Bea") @@ ("numberOfGuests" :> "#2")}}
  \cup {[kind |-> "callFailed"]}

\* the conversation object a suspended call holds
ConvOf(t) ==
  IF t.ref = 0 THEN conversations[t.sessionId] ELSE inflight.orphans[t.ref]

\* a merge onto the slots as they were when the call began
MergeOnto_Snapshot(t, conversation) == t.currentData

\* { ...conversation.bookingData, ...updatedData }: the slots the merge
\* spreads first are those of the object at the time of the merge
MergeOnto(t, conversation) == conversation.bookingData

\* the sequence without its i-th element
RemoveAt(s, i) == SubSeq(s, 1, i - 1) \o SubSeq(s, i + 1, Len(s))

\* a call that puts its object back into the Map after changing it
StoreWith_SetAgain(t, c) == MapSet(conversations, t.sessionId, c)

\* the Map and the removed objects after the object of call t became c
StoreWith(t, c) ==
  IF t.ref = 0 THEN MapSet(conversations, t.sessionId, c) ELSE conversations

OrphansWith(t, c) ==
  IF t.ref = 0 THEN inflight.orphans
  ELSE [inflight.orphans EXCEPT ![t.ref] = c]

\* processConversationTurn up to the await in extractBookingInfo
TurnBegin(sid) ==
  /\ turns < MaxTurns
  /\ \E userMessage \in OverlapMessages :
       LET conversation == GetOrCreate(conversations, sid)
           history1 == Append(conversation.history,
                              [role |-> "user", message |-> userMessage])
       IN  /\ conversations' =
                MapSet(conversations, sid,
                       [conversation EXCEPT !.history = history1])
           /\ inflight' =
                [inflight EXCEPT !.turns =
                   Append(@, [sessionId |-> sid, userMessage |-> userMessage,
                              pc |-> "extract", ref |-> 0,
                              currentData |-> conversation.bookingData])]
           /\ call' = [op |-> "begin", sessionId |-> sid,
                       userMessage |-> userMessage]
  /\ turns' = turns + 1
  /\ UNCHANGED <<now, clientVars>>

\* the extraction call of a suspended turn answers: the merge, the completion
\* check, and generateContextualResponse up to its await; a throw before that
\* await ends the call in the catch
TurnExtracted(i) ==
  /\ i \in 1..Len(inflight.turns)
  /\ inflight.turns[i].pc = "extract"
  /\ \E extraction \in OverlapOutcomes :
       LET t == inflight.turns[i]
           conversation == ConvOf(t)
           updatedData == extractBookingInfo(extraction)
           bookingData1 ==
             MergeBookingData(MergeOnto(t, conversation), updatedData)
           isComplete == isBookingComplete(bookingData1)
           merged == [conversation EXCEPT !.bookingData = bookingData1]
           threw == ResponseThrows(conversation.history)
       IN  /\ conversations' = StoreWith(t, merged)
           /\ inflight' =
                [turns |->
                   IF threw THEN RemoveAt(inflight.turns, i)
                   ELSE [inflight.turns EXCEPT
                           ![i] = [sessionId |-> t.sessionId,
                                   userMessage |-> t.userMessage,
                                   pc |-> "respond", ref |-> t.ref,
                                   currentData |-> t.currentData,
                                   bookingData |-> bookingData1,
                                   isComplete |-> isComplete,
                                   history |-> conversation.history]],
                 orphans |-> OrphansWith(t, merged)]
           /\ call' = [op |-> "merge", sessionId |-> t.sessionId,
                       ref |-> t.ref, currentData |-> t.currentData,
                       updatedData |-> updatedData, threw |-> threw,
                       result |->
                         IF threw
                         THEN TurnResult(FALLBACK_PROMPT, bookingData1, FALSE)
                         ELSE Null]
  /\ UNCHANGED <<turns, now, clientVars>>

\* the response call of a suspended turn answers: the reply is added to the
\* history and the call returns
TurnResponded(i) ==
  /\ i \in 1..Len(inflight.turns)
  /\ inflight.turns[i].pc = "respond"
  /\ \E generated \in BOOLEAN :
       LET t == inflight.turns[i]
           conversation == ConvOf(t)
           response ==
             generateContextualResponse(t.userMessage, t.bookingData,
                                        t.isComplete, t.history, generated)
           replied ==
             [conversation EXCEPT
                !.history = Append(@, [role |-> "assistant",
                                       message |-> response])]
       IN  /\ conversations' = StoreWith(t, replied)
           /\ inflight' = [turns |-> RemoveAt(inflight.turns, i),
                           orphans |-> OrphansWith(t, replied)]
           /\ call' = [op |-> "return", sessionId |-> t.sessionId,
                       ref |-> t.ref,
                       result |-> TurnResult(response, conversation.bookingData,
                                             t.isComplete)]
  /\ UNCHANGED <<turns, now, clientVars>>

\* clearConversation(sessionId) while calls may be suspended: the calls that
\* hold the object keep it
ClearConversation(sid) ==
  /\ sid \in DOMAIN conversations
  /\ conversations' = MapDelete(conversations, sid)
  /\ LET held == \E i \in 1..Len(inflight.turns) :
                    /\ inflight.turns[i].sessionId = sid
                    /\ inflight.turns[i].ref = 0
         n == Len(inflight.orphans) + 1
     IN  inflight' =
           IF held
           THEN [turns |->
                   [i \in 1..Len(inflight.turns) |->
                      IF inflight.turns[i].sessionId = sid
                         /\ inflight.turns[i].ref = 0
                      THEN [inflight.turns[i] EXCEPT !.ref = n]
                      ELSE inflight.turns[i]],
                 orphans |-> Append(inflight.orphans, conversations[sid])]
           ELSE inflight
  /\ call' = [op |-> "clear", sessionId |-> sid]
  /\ UNCHANGED <<turns, now, clientVars>>

\* getConversation(sessionId)
GetConversation(sid) ==
  /\ call' = [op |-> "get", sessionId |-> sid,
              result |-> IF sid \in DOMAIN conversations
                         THEN conversations[sid] ELSE Null]
  /\ UNCHANGED <<conversations, inflight, turns, now, clientVars>>

NextOverlap ==
  \/ \E sid \in OverlapSessions : TurnBegin(sid)
  \/ \E i \in 1..MaxTurns : TurnExtracted(i)
  \/ \E i \in 1..MaxTurns : TurnResponded(i)
  \/ \E sid \in OverlapSessions : ClearConversation(sid)
  \/ \E sid \in OverlapSessions : GetConversation(sid)

SpecOverlap == InitApi /\ [][NextOverlap]_vars

\* ---------------------------------------------------- the date/time window
\* a window that excludes its last day
ValidateDate_Exclusive(dateStr, today) ==
  LET bookingDate == ParseDate(dateStr)
      maxDate == today + BOOKING_WINDOW
  IN  IF DateLt(bookingDate, today) THEN "pastDate"
      ELSE IF ~DateLt(bookingDate, maxDate) THEN "tooFarFuture"
      ELSE "ok"

\* processWithGemini: the two date checks, in their order
ValidateDate(dateStr, today) ==
  LET bookingDate == ParseDate(dateStr)
      maxDate == today + BOOKING_WINDOW
  IN  IF DateLt(bookingDate, today) THEN "pastDate"
      ELSE IF DateGt(bookingDate, maxDate) THEN "tooFarFuture"
      ELSE "ok"

\* a time check that lets the current clock reading pass
ValidateTime_Strict(dateStr, timeStr, today, clock) ==
  IF /\ Truthy(timeStr)
     /\ ParseDate(dateStr) = today
     /\ DateLt(ParseTime(timeStr), clock)
  THEN "timeInPast"
  ELSE "ok"

\* processWithGemini: the time check, made only for a booking of today
ValidateTime(dateStr, timeStr, today, clock) ==
  IF /\ Truthy(timeStr)
     /\ ParseDate(dateStr) # NaN
     /\ ParseDate(dateStr) = today
     /\ DateLe(ParseTime(timeStr), clock)
  THEN "timeInPast"
  ELSE "ok"

\* routes/chat.js: the date check of a weather request
WeatherDateAllowed(dateStr, today) ==
  LET bookingDateObj == ParseDate(dateStr)
      maxDate == today + BOOKING_WINDOW
  IN  ~(DateGt(bookingDateObj, maxDate) \/ DateLt(bookingDateObj, today))

\* ------------------------------------------------------ weather, seating
\* A number that is missing (undefined) is NaN here: every comparison with
\* it is false, and `x || 0` gives 0 for it.  Temperatures are whole degrees,
\* precipitation probabilities whole percents (0.4 is 40).

\* JS relational operators on numbers
NumLt(a, b) == a # NaN /\ b # NaN /\ a < b
NumGt(a, b) == a # NaN /\ b # NaN /\ a > b
NumLe(a, b) == a # NaN /\ b # NaN /\ a <= b
NumGe(a, b) == a # NaN /\ b # NaN /\ a >= b

\* x || 0 for a number x
OrZero(x) == IF x = NaN THEN 0 ELSE x

\* the words of the seating patterns that occur in a weather string, matched
\* as /.../i does: as substrings, whatever the case
Occurs(text) ==
  CASE text = "Rain" -> {"rain"}
    [] text = "drizzle" -> {"drizzle"}
    [] text = "Snow" -> {"snow"}
    [] text = "Thunderstorm" -> {"thunderstorm"}
    [] text = "Clear" -> {"clear"}
    [] text = "Clouds" -> {"clouds"}
    [] text = "light rain" -> {"rain"}
    [] text = "clear sky" -> {"clear"}
    [] text = "few clouds" -> {"clouds", "few clouds"}
    [] text = "Scattered Clouds" -> {"clouds"}
    [] text = "overcast clouds" -> {"clouds"}
    [] OTHER -> {}

\* no forecast entry: null
NoForecast == [kind |-> "none"]

\* weatherData.weather?.main || "" ; weather is <<>> when the entry has none
WeatherMain(weatherData) ==
  IF weatherData.weather = <<>> THEN Empty ELSE weatherData.weather[1].main

\* weatherData.weather?.description || ""
WeatherDescription(weatherData) ==
  IF weatherData.weather = <<>> THEN Empty
  ELSE weatherData.weather[1].description

\* a recommendation that lets pleasant weather win over a rain condition
recommendSeating_PleasantFirst(weatherData) ==
  IF weatherData = NoForecast THEN "indoor"
  ELSE IF /\ NumGe(weatherData.temp, 18)
          /\ NumLe(weatherData.temp, 30)
          /\ Occurs(WeatherDescription(weatherData))
               \cap {"clear", "clouds", "few clouds"} # {}
    THEN "outdoor"
  ELSE "indoor"

\* a recommendation that takes 18 degrees for too cold
recommendSeating_Above18(weatherData) ==
  IF weatherData = NoForecast THEN "indoor"
  ELSE IF Occurs(WeatherMain(weatherData))
            \cap {"rain", "drizzle", "snow", "thunderstorm"} # {}
    THEN "indoor"
  ELSE IF NumGt(OrZero(weatherData.pop), 40) THEN "indoor"
  ELSE IF /\ NumGt(weatherData.temp, 18)
          /\ NumLe(weatherData.temp, 30)
          /\ Occurs(WeatherDescription(weatherData))
               \cap {"clear", "clouds", "few clouds"} # {}
    THEN "outdoor"
  ELSE "indoor"

\* a recommendation that gives up on a sample without a temperature
recommendSeating_NeedsTemp(weatherData) ==
  IF weatherData = NoForecast THEN "indoor"
  ELSE IF weatherData.temp = NaN THEN "unknown"
  ELSE IF Occurs(WeatherMain(weatherData))
            \cap {"rain", "drizzle", "snow", "thunderstorm"} # {}
    THEN "indoor"
  ELSE "outdoor"

\* recommendSeating(weatherData)
recommendSeating(weatherData) ==
  IF weatherData = NoForecast THEN "indoor"
  ELSE LET temp == weatherData.temp
           condition == WeatherMain(weatherData)
           description == WeatherDescription(weatherData)
           pop == OrZero(weatherData.pop)
       IN  IF Occurs(condition)
                \cap {"rain", "drizzle", "snow", "thunderstorm"} # {}
             THEN "indoor"
           ELSE IF NumGt(pop, 40) THEN "indoor"
           ELSE IF NumLt(temp, 10) \/ NumGt(temp, 38) THEN "indoor"
           ELSE IF /\ NumGe(temp, 18)
                   /\ NumLe(temp, 30)
                   /\ Occurs(description)
                        \cap {"clear", "clouds", "few clouds"} # {}
             THEN "outdoor"
           ELSE "indoor"

\* Timestamps count the time slots of the calendar: TimeStr(k) of day n is
\* slot n * Len(TimeNames) + k.

\* Math.floor(new Date(`${bookingDate}T${bookingTime}:00`).getTime() / 1000):
\* NaN when the date or the time does not parse
TargetEpoch(bookingDate, bookingTime) ==
  IF ParseDate(bookingDate) = NaN \/ ParseTime(bookingTime) = NaN THEN NaN
  ELSE ParseDate(bookingDate) * Len(TimeNames) + ParseTime(bookingTime)

\* Math.abs(entry.dt - targetEpoch)
AbsDiff(dt, targetEpoch) ==
  IF dt = NaN \/ targetEpoch = NaN THEN NaN
  ELSE IF dt >= targetEpoch THEN dt - targetEpoch
  ELSE targetEpoch - dt

\* the loop of findClosestForecast from entry i on; closest = NoForecast
\* stands for minDiff = Infinity.  LastWins takes an equally close later entry.
RECURSIVE ScanForecast_LastWins(_, _, _, _, _)
ScanForecast_LastWins(list, targetEpoch, i, closest, minDiff) ==
  IF i > Len(list) THEN closest
  ELSE LET diff == AbsDiff(list[i].dt, targetEpoch)
       IN  IF diff # NaN /\ (closest = NoForecast \/ diff <= minDiff)
           THEN ScanForecast_LastWins(list, targetEpoch, i + 1, list[i], diff)
           ELSE ScanForecast_LastWins(list, targetEpoch, i + 1, closest,
                                      minDiff)

RECURSIVE ScanForecast(_, _, _, _, _)
ScanForecast(list, targetEpoch, i, closest, minDiff) ==
  IF i > Len(list) THEN closest
  ELSE LET diff == AbsDiff(list[i].dt, targetEpoch)
       IN  IF diff # NaN /\ (closest = NoForecast \/ diff < minDiff)
           THEN ScanForecast(list, targetEpoch, i + 1, list[i], diff)
           ELSE ScanForecast(list, targetEpoch, i + 1, closest, minDiff)

\* findClosestForecast(apiResponse, bookingDate, bookingTime); list is
\* apiResponse.list || [], its entries carry the fields the function keeps
\* (dt, temp, feels_like, the first weather element, pop)
findClosestForecast(list, bookingDate, bookingTime) ==
  ScanForecast(list, TargetEpoch(bookingDate, bookingTime), 1, NoForecast, 0)

\* what fetchWeatherForecast did: it threw, or it returned a response
FetchFailed == [kind |-> "failed"]
Fetched(list) == [kind |-> "ok", list |-> list]

\* weatherInfo of a forecast entry, shown by its condition field:
\* forecast.weather?.main || "Unknown"
WeatherInfoOf(forecast) ==
  IF WeatherMain(forecast) = Empty THEN "Unknown" ELSE WeatherMain(forecast)

\* a service that lets the failure of the fetch escape
getWeatherAndRecommendation_Rethrow(fetch, bookingDate, bookingTime, today) ==
  IF fetch.kind = "failed"
  THEN [weatherInfo |-> Null, seatingRecommendation |-> Null,
        error |-> Null, threw |-> TRUE]
  ELSE LET forecast ==
             findClosestForecast(fetch.list, bookingDate, bookingTime)
       IN  IF forecast = NoForecast
           THEN [weatherInfo |-> Null, seatingRecommendation |-> "outdoor",
                 error |-> Null, threw |-> FALSE]
           ELSE [weatherInfo |-> WeatherInfoOf(forecast),
                 seatingRecommendation |-> recommendSeating(forecast),
                 error |-> Null, threw |-> FALSE]

\* getWeatherAndRecommendation(bookingDate, bookingTime, city); fetch is what
\* fetchWeatherForecast does when it is called
getWeatherAndRecommendation(fetch, bookingDate, bookingTime, today) ==
  IF DateGt(ParseDate(bookingDate), today + BOOKING_WINDOW)
  THEN [weatherInfo |-> Null, seatingRecommendation |-> "indoor",
        error |-> "Weather data only available for next 5 days",
        threw |-> FALSE]
  ELSE IF fetch.kind = "failed"
  THEN [weatherInfo |-> Null, seatingRecommendation |-> "indoor",
        error |-> Null, threw |-> FALSE]
  ELSE LET forecast ==
             findClosestForecast(fetch.list, bookingDate, bookingTime)
       IN  IF forecast = NoForecast
           THEN [weatherInfo |-> Null, seatingRecommendation |-> "indoor",
                 error |-> Null, threw |-> FALSE]
           ELSE [weatherInfo |-> WeatherInfoOf(forecast),
                 seatingRecommendation |-> recommendSeating(forecast),
                 error |-> Null, threw |-> FALSE]

\* ------------------------------------------------------------ routes/chat
\* message.toLowerCase().includes("weather")
IncludesWeather(message) == RegexTest({"weather"}, message)

\* what fetchWeatherForecast may do for a weather request: throw, or
\* return a response with no entry or with one
WeatherFetches ==
  {FetchFailed, Fetched(<<>>),
   Fetched(<<[dt |-> 1, temp |-> 25, feels_like |-> 25,
              weather |-> <<[main |-> "Clear", description |-> "clear sky"]>>,
              pop |-> 0]>>),
   Fetched(<<[dt |-> 1, temp |-> 24, feels_like |-> 24,
              weather |-> <<[main |-> "Rain", description |-> "light rain"]>>,
              pop |-> 10]>>)}

\* bookingData.bookingTime || "19:00"
WeatherTimeOf(bookingData) ==
  IF Truthy(bookingData.bookingTime) THEN bookingData.bookingTime
  ELSE TimeStr(4)

\* router.post("/"): the request in flight is answered
ChatServer ==
  /\ net.kind = "request"
  /\ IF IncludesWeather(net.message) /\ Truthy(net.bookingData.bookingDate)
     THEN /\ IF ~WeatherDateAllowed(net.bookingData.bookingDate, Today)
             THEN net' = [kind |-> "response", status |-> 400,
                          data |-> [bookingData |-> net.bookingData]]
                  /\ UNCHANGED call
             ELSE \E fetch \in WeatherFetches :
                    LET w == getWeatherAndRecommendation(
                               fetch, net.bookingData.bookingDate,
                               WeatherTimeOf(net.bookingData), Today)
                    IN  /\ call' = [op |-> "getWeatherAndRecommendation",
                                    fetch |-> fetch,
                                    bookingDate |-> net.bookingData.bookingDate,
                                    bookingTime |->
                                      WeatherTimeOf(net.bookingData),
                                    result |-> w]
                        /\ net' =
                             IF Truthy(w.error)
                             THEN [kind |-> "response", status |-> 400,
                                   data |-> [bookingData |-> net.bookingData]]
                             ELSE [kind |-> "response", status |-> 200,
                                   data |-> [response |-> C_WEATHER,
                                             weatherInfo |-> w.weatherInfo,
                                             seatingRecommendation |->
                                               w.seatingRecommendation,
                                             bookingData |-> net.bookingData,
                                             isComplete |-> FALSE]]
          /\ UNCHANGED conversations
     ELSE \E gemini \in ChatModelCalls :
            LET done == processConversationTurn(conversations, net.sessionId,
                                                net.message, gemini[1],
                                                gemini[2])
            IN  /\ conversations' =
                     MapSet(conversations, net.sessionId, done.conversation)
                /\ net' = [kind |-> "response", status |-> 200,
                           data |-> done.result]
                /\ call' = [op |-> "processConversationTurn",
                            sessionId |-> net.sessionId,
                            userMessage |-> net.message,
                            outcome |-> gemini[1], generated |-> gemini[2],
                            result |-> done.result]
  /\ UNCHANGED <<showContinuePrompt, inflight,
                 heard, turns, now, step, booking, weatherRecommendationGiven,
                 lastWeatherCheck, isActive, bookingNo, handler, spoken,
                 outcome, edits>>

\* the request fails on the way: axios rejects
NetworkError ==
  /\ net.kind = "request"
  /\ net' = [kind |-> "response", status |-> 0]
  /\ UNCHANGED <<showContinuePrompt,
                 heard, serverVars, turns, now, step, booking,
                 weatherRecommendationGiven, lastWeatherCheck, isActive,
                 bookingNo, handler, spoken, outcome, edits>>

\* ------------------------------------------------------------ VoiceBooking
\* what the user may say while the details are collected
Utterances == {U_HELLO}

\* what the user may type into the form: <<field, value>>
ManualEdits ==
  {<<"cuisinePreference", "Thai">>, <<"bookingDate", DateStr(Today + 1)>>}

\* the steps at which processWithGemini hands the utterance to
\* handleConfirmation instead of posting it
BusySteps == {"FETCH_WEATHER", "CONFIRM_DETAILS"}

\* startBooking
StartBooking ==
  /\ ~isActive
  /\ ~showContinuePrompt
  /\ step = "IDLE"
  /\ isActive' = TRUE
  /\ step' = "ASK_NAME"
  /\ spoken' = C_GREETING
  /\ UNCHANGED <<showContinuePrompt,
                 heard, serverVars, turns, now, booking, weatherRecommendationGiven,
                 lastWeatherCheck, bookingNo, handler, net, outcome, edits>>

\* handleUserSpeech and processWithGemini up to the await of the POST: the
\* closure of the render that is current when the transcript arrives
HearSpeech ==
  /\ isActive
  /\ handler = Idle
  /\ net = NoNet
  /\ step \notin BusySteps
  /\ \E transcript \in Utterances :
       /\ handler' = [pc |-> "chat", booking |-> booking,
                      weatherRecommendationGiven |-> weatherRecommendationGiven]
       /\ net' = [kind |-> "request", sessionId |-> sessionId,
                  message |-> transcript, bookingData |-> booking]
       /\ heard' = transcript
  /\ turns' = turns + 1
  /\ UNCHANGED <<showContinuePrompt,
                 serverVars, now, step, booking, weatherRecommendationGiven,
                 lastWeatherCheck, isActive, bookingNo, spoken, outcome, edits>>

\* the user speaks while the details are collected
UserSpeech == turns < MaxSpeech /\ HearSpeech

\* the user speaks once more after the utterances UserSpeech allows
UserSpeechAgain == turns = MaxSpeech /\ HearSpeech

\* const updatedBooking = { ...booking, ...data.bookingData }
MergeClientBooking(closureBooking, bookingData) ==
  Spread(closureBooking, bookingData)

\* a change check that looks at the date only
dateOrTimeChanged_DateOnly(closureBooking, bookingData) ==
  /\ Truthy(bookingData.bookingDate)
  /\ bookingData.bookingDate # closureBooking.bookingDate

\* const dateOrTimeChanged = ...
dateOrTimeChanged(closureBooking, bookingData) ==
  \/ /\ Truthy(bookingData.bookingDate)
     /\ bookingData.bookingDate # closureBooking.bookingDate
  \/ /\ Truthy(bookingData.bookingTime)
     /\ bookingData.bookingTime # closureBooking.bookingTime

\* a completion check on the four required fields only
allFieldsComplete_RequiredOnly(b) ==
  /\ Truthy(b.customerName)
  /\ Truthy(b.numberOfGuests)
  /\ Truthy(b.bookingDate)
  /\ Truthy(b.bookingTime)

\* const allFieldsComplete = ... (cuisine and special requests included)
allFieldsComplete(b) ==
  /\ Truthy(b.customerName)
  /\ Truthy(b.numberOfGuests)
  /\ Truthy(b.bookingDate)
  /\ Truthy(b.bookingTime)
  /\ Truthy(b.cuisinePreference)
  /\ Truthy(b.specialRequests)

\* a verdict without the date checks
Verdict_TimeOnly(bookingData, today, clock) ==
  IF ~Truthy(bookingData.bookingDate) THEN "ok"
  ELSE ValidateTime(bookingData.bookingDate, bookingData.bookingTime,
                    today, clock)

\* the verdict of processWithGemini on the bookingData of a response:
\* "pastDate", "tooFarFuture", "timeInPast" or "ok"
Verdict(bookingData, today, clock) ==
  IF ~Truthy(bookingData.bookingDate) THEN "ok"
  ELSE IF ValidateDate(bookingData.bookingDate, today) # "ok"
    THEN ValidateDate(bookingData.bookingDate, today)
  ELSE ValidateTime(bookingData.bookingDate, bookingData.bookingTime,
                    today, clock)

\* processWithGemini after the await of the POST
ChatReceive ==
  /\ handler.pc = "chat"
  /\ net.kind = "response"
  /\ IF net.status # 200
     THEN \* catch (error)
          /\ spoken' = C_ERROR
          /\ outcome' = "error"
          /\ handler' = Idle
          /\ net' = NoNet
          /\ UNCHANGED <<step, booking, weatherRecommendationGiven,
                         lastWeatherCheck>>
     ELSE LET data == net.data
              verdict == Verdict(data.bookingData, Today, now)
              updatedBooking == MergeClientBooking(handler.booking,
                                                   data.bookingData)
              changed == dateOrTimeChanged(handler.booking, data.bookingData)
          IN  CASE verdict = "pastDate" ->
                     /\ step' = "ASK_DATE"
                     /\ spoken' = C_PAST_DATE
                     /\ outcome' = "pastDate"
                     /\ handler' = Idle
                     /\ net' = NoNet
                     /\ UNCHANGED <<booking, weatherRecommendationGiven,
                                    lastWeatherCheck>>
                [] verdict = "tooFarFuture" ->
                     /\ step' = "ASK_DATE"
                     /\ spoken' = C_TOO_FAR
                     /\ outcome' = "tooFarFuture"
                     /\ handler' = Idle
                     /\ net' = NoNet
                     /\ UNCHANGED <<booking, weatherRecommendationGiven,
                                    lastWeatherCheck>>
                [] verdict = "timeInPast" ->
                     /\ booking' = [booking EXCEPT !.bookingTime = Empty]
                     /\ spoken' = C_TIME_PASSED
                     /\ outcome' = "timeInPast"
                     /\ handler' = Idle
                     /\ net' = NoNet
                     /\ UNCHANGED <<step, weatherRecommendationGiven,
                                    lastWeatherCheck>>
                [] OTHER ->
                     /\ booking' = updatedBooking
                     /\ outcome' = "merged"
                     /\ lastWeatherCheck' =
                          IF changed THEN Null ELSE lastWeatherCheck
                     /\ IF allFieldsComplete(updatedBooking)
                        THEN IF ~handler.weatherRecommendationGiven \/ changed
                             THEN \* fetchWeatherAndRespond up to its POST
                                  /\ step' = "FETCH_WEATHER"
                                  /\ spoken' = C_CHECK_WEATHER
                                  /\ weatherRecommendationGiven' =
                                       IF changed THEN FALSE
                                       ELSE weatherRecommendationGiven
                                  /\ handler' = [handler EXCEPT !.pc = "weather"]
                                  /\ net' = [kind |-> "request",
                                             sessionId |-> sessionId,
                                             message |-> W_GET_WEATHER,
                                             bookingData |-> handler.booking]
                             ELSE \* moveTo(STEPS.CONFIRM_DETAILS)
                                  /\ step' = "CONFIRM_DETAILS"
                                  /\ spoken' = C_CONFIRM
                                  /\ handler' = Idle
                                  /\ net' = NoNet
                                  /\ UNCHANGED weatherRecommendationGiven
                        ELSE /\ spoken' = data.response
                             /\ weatherRecommendationGiven' =
                                  IF changed THEN FALSE
                                  ELSE weatherRecommendationGiven
                             /\ handler' = Idle
                             /\ net' = NoNet
                             /\ UNCHANGED step
  /\ UNCHANGED <<showContinuePrompt,
                 heard, serverVars, turns, now, isActive, bookingNo, edits>>

\* fetchWeatherAndRespond after the await of its POST
WeatherReceive ==
  /\ handler.pc = "weather"
  /\ net.kind = "response"
  /\ IF net.status = 200
     THEN LET data == net.data
              recommendedSeating ==
                IF "seatingRecommendation" \in DOMAIN data
                   /\ Truthy(data.seatingRecommendation)
                THEN data.seatingRecommendation
                ELSE "indoor"
              weatherInfo ==
                IF "weatherInfo" \in DOMAIN data THEN data.weatherInfo
                ELSE Null
          IN  /\ booking' =
                   [booking EXCEPT
                      !.weatherInfo = weatherInfo,
                      !.seatingPreference =
                         IF Truthy(@) THEN @ ELSE recommendedSeating]
              /\ weatherRecommendationGiven' = TRUE
              /\ lastWeatherCheck' = [date |-> handler.booking.bookingDate,
                                      time |-> handler.booking.bookingTime]
              /\ spoken' = IF Truthy(weatherInfo) THEN C_WEATHER
                           ELSE C_NO_WEATHER
              /\ outcome' = "weather"
              /\ handler' = Idle
     ELSE \* catch (error)
          /\ booking' = [booking EXCEPT !.seatingPreference = "indoor"]
          /\ spoken' = C_WEATHER_FAILED
          /\ outcome' = "weatherFailed"
          /\ handler' = [pc |-> "toConfirm"]
          /\ UNCHANGED <<weatherRecommendationGiven, lastWeatherCheck>>
  /\ net' = NoNet
  /\ UNCHANGED <<showContinuePrompt,
                 heard, serverVars, turns, now, step, isActive, bookingNo, edits>>

\* setTimeout(() => moveTo(STEPS.CONFIRM_DETAILS), 2000) fires
ConfirmTimer ==
  /\ handler.pc = "toConfirm"
  /\ step' = "CONFIRM_DETAILS"
  /\ spoken' = C_CONFIRM
  /\ handler' = Idle
  /\ UNCHANGED <<showContinuePrompt,
                 heard, serverVars, turns, now, booking, weatherRecommendationGiven,
                 lastWeatherCheck, isActive, bookingNo, net, outcome, edits>>

\* what the user may answer at the weather step and at the final step
Replies == {U_OUTDOOR, U_YES_INSIDE, U_YES, U_INDOORS, U_CHANGE, U_NO_RIGHT}

\* a quick handler that hears no seating word
QuickSeating_None(transcript) == Empty

\* handleUserSpeech, "Quick handle for seating preference via voice": the
\* seating the transcript names as a whole word, "" when it names none
QuickSeating(transcript) ==
  IF WordTest({"indoor", "inside"}, transcript) THEN "indoor"
  ELSE IF WordTest({"outdoor", "outside"}, transcript) THEN "outdoor"
  ELSE Empty

\* the answers at the final step that start saveBookingToServer or hand the
\* message to processWithGemini again; the user gives none of them here
SavesOrReprocesses(transcript) ==
  /\ QuickSeating(transcript) = Empty
  /\ IF userWantsToChange(transcript) THEN NamesField(transcript)
     ELSE isPositive(transcript)

\* a weather step at which the affirmation is tested before the seating words
SeatingReply_AffirmationFirst(transcript) ==
  IF isPositive(transcript) THEN [seating |-> Empty, say |-> C_EXCELLENT]
  ELSE IF isSeatingIndoor(transcript)
    THEN [seating |-> "indoor", say |-> C_INDOOR_SET]
  ELSE IF isSeatingOutdoor(transcript)
    THEN [seating |-> "outdoor", say |-> C_OUTDOOR_SET]
  ELSE [seating |-> Empty, say |-> C_SEATING_UNCLEAR]

\* handleUserSpeech and handleConfirmation at the weather step: the seating
\* to set ("" for none) and what is said; C_SEATING_UNCLEAR asks again, every
\* other answer arms the timer of moveTo(CONFIRM_DETAILS)
SeatingReply(transcript) ==
  IF isSeatingIndoor(transcript)
  THEN [seating |-> "indoor", say |-> C_INDOOR_SET]
  ELSE IF isSeatingOutdoor(transcript)
    THEN [seating |-> "outdoor", say |-> C_OUTDOOR_SET]
  ELSE IF isPositive(transcript) THEN [seating |-> Empty, say |-> C_EXCELLENT]
  ELSE [seating |-> Empty, say |-> C_SEATING_UNCLEAR]

\* handleUserSpeech at FETCH_WEATHER or CONFIRM_DETAILS: the seating words are
\* handled at once, everything else goes through processWithGemini to
\* handleConfirmation
ConfirmationSpeech ==
  /\ isActive
  /\ handler = Idle
  /\ net = NoNet
  /\ step \in BusySteps
  /\ \E transcript \in Replies :
       /\ heard' = transcript
       /\ IF step = "FETCH_WEATHER"
          THEN LET reply == SeatingReply(transcript)
               IN  /\ booking' =
                        IF reply.seating = Empty THEN booking
                        ELSE [booking EXCEPT !.seatingPreference = reply.seating]
                   /\ spoken' = reply.say
                   /\ handler' =
                        IF reply.say = C_SEATING_UNCLEAR THEN Idle
                        ELSE [pc |-> "toConfirm"]
                   /\ UNCHANGED <<step, weatherRecommendationGiven>>
          ELSE /\ ~SavesOrReprocesses(transcript)
               /\ IF QuickSeating(transcript) # Empty
                  THEN /\ booking' =
                            [booking EXCEPT
                               !.seatingPreference = QuickSeating(transcript)]
                       /\ spoken' = IF QuickSeating(transcript) = "indoor"
                                    THEN C_INDOOR_SET ELSE C_OUTDOOR_SET
                       /\ handler' = [pc |-> "toConfirm"]
                       /\ UNCHANGED <<step, weatherRecommendationGiven>>
                  ELSE IF userWantsToChange(transcript)
                  THEN /\ spoken' = C_WHAT_TO_CHANGE
                       /\ step' = "ASK_NAME"
                       /\ weatherRecommendationGiven' = FALSE
                       /\ handler' = Idle
                       /\ UNCHANGED booking
                  ELSE /\ spoken' = C_PROCEED_UNCLEAR
                       /\ handler' = Idle
                       /\ UNCHANGED <<booking, step, weatherRecommendationGiven>>
  /\ UNCHANGED <<showContinuePrompt,
                 serverVars, turns, now, lastWeatherCheck, isActive, bookingNo,
                 net, outcome, edits>>

\* handleFieldChange(field, value): the form is shown while isActive
FieldChange ==
  /\ isActive
  /\ edits < MaxEdits
  /\ \E e \in ManualEdits : booking' = [booking EXCEPT ![e[1]] = e[2]]
  /\ edits' = edits + 1
  /\ UNCHANGED <<showContinuePrompt,
                 heard, serverVars, turns, now, step, weatherRecommendationGiven,
                 lastWeatherCheck, isActive, bookingNo, handler, net, spoken,
                 outcome>>

\* resetBooking (the Cancel button); a handler in progress goes on
ResetBooking ==
  /\ isActive
  /\ bookingNo < MaxBookings
  /\ step' = "IDLE"
  /\ booking' = NewBooking
  /\ heard' = Empty
  /\ isActive' = FALSE
  /\ weatherRecommendationGiven' = FALSE
  /\ lastWeatherCheck' = Null
  /\ bookingNo' = bookingNo + 1
  /\ UNCHANGED <<showContinuePrompt,
                 serverVars, turns, now, handler, net, spoken, outcome, edits>>

\* time passes
Tick ==
  /\ now < MaxClock
  /\ now' = now + 1
  /\ UNCHANGED <<serverVars, turns, clientVars>>

Init ==
  /\ InitBackend
  /\ InitClient
  /\ now = 1

Next ==
  \/ StartBooking
  \/ UserSpeech
  \/ ChatServer
  \/ NetworkError
  \/ ChatReceive
  \/ WeatherReceive
  \/ ConfirmTimer
  \/ FieldChange
  \/ ResetBooking
  \/ Tick

Spec == Init /\ [][Next]_vars

\* ------------------------------------------------- a conversation that goes on
\* the same client and route, with one utterance more
NextFollowUp ==
  \/ Next
  \/ UserSpeechAgain

SpecFollowUp == Init /\ [][NextFollowUp]_vars

\* ------------------------------------------- a session taken up again
\* The component is mounted with a session in localStorage: the state hooks
\* start from savedData, and savedData.isActive is true in every saved
\* session, since the save effect runs only while isActive.

\* the booking of the saved sessions: every field set, for tomorrow
SavedBooking ==
  [NewBooking EXCEPT !.customerName = "Ann", !.numberOfGuests = "#2",
                     !.bookingDate = DateStr(Today + 1),
                     !.bookingTime = TimeStr(1),
                     !.cuisinePreference = "Thai",
                     !.specialRequests = "None"]

\* the sessions found in localStorage: one saved at the weather step after
\* the recommendation, one saved after a booking was cancelled while its
\* weather request was in flight and a new one was started (the late response
\* set the flag and the seating), and one saved after the booking was stored,
\* before the timer of resetBooking fired
SavedSessions ==
  {[step |-> "FETCH_WEATHER",
    booking |-> [SavedBooking EXCEPT !.weatherInfo = "Clear",
                                     !.seatingPreference = "outdoor"],
    weatherRecommendationGiven |-> TRUE,
    lastWeatherCheck |-> [date |-> DateStr(Today + 1), time |-> TimeStr(1)]],
   [step |-> "ASK_NAME",
    booking |-> [NewBooking EXCEPT !.weatherInfo = "Clear",
                                   !.seatingPreference = "outdoor"],
    weatherRecommendationGiven |-> TRUE,
    lastWeatherCheck |-> [date |-> DateStr(Today + 1), time |-> TimeStr(1)]],
   [step |-> "COMPLETE",
    booking |-> [SavedBooking EXCEPT !.weatherInfo = "Clear",
                                     !.seatingPreference = "outdoor"],
    weatherRecommendationGiven |-> TRUE,
    lastWeatherCheck |-> [date |-> DateStr(Today + 1), time |-> TimeStr(1)]]}

\* the conversation store of the server, which kept running: the session as
\* one complete turn left it
SavedStore ==
  MapSet([k \in {} |-> Null], SessionNames[1],
         processConversationTurn(
           [k \in {} |-> Null], SessionNames[1], U_HELLO,
           [kind |-> "ok",
            parsed |-> CompleteObject(DateStr(Today + 1), TimeStr(1))],
           TRUE).conversation)

InitResumed ==
  /\ \E saved \in SavedSessions :
       /\ step = saved.step
       /\ booking = saved.booking
       /\ weatherRecommendationGiven = saved.weatherRecommendationGiven
       /\ lastWeatherCheck = saved.lastWeatherCheck
       /\ showContinuePrompt = (saved.step \notin {"IDLE", "COMPLETE"})
  /\ conversations = SavedStore
  /\ call = NoCall
  /\ turns = 0
  /\ isActive = TRUE
  /\ bookingNo = 1
  /\ handler = Idle
  /\ net = NoNet
  /\ spoken = Empty
  /\ heard = Empty
  /\ outcome = "none"
  /\ edits = 0
  /\ inflight = NoneInFlight
  /\ now = 1

\* the cap on the ids that remain for a fresh start after a cancellation
MaxSessions == MaxBookings + 1

C_CONTINUE == "Great! Let's continue where we left off."

\* VoiceControls shows the Continue Previous and Start New buttons, and
\* handleUserSpeech takes an utterance as the answer to that choice
ContinueChoiceOffered == showContinuePrompt /\ ~isActive

\* continueBooking (the Continue Previous button)
ContinueBooking ==
  /\ ContinueChoiceOffered
  /\ showContinuePrompt' = FALSE
  /\ isActive' = TRUE
  /\ spoken' = C_CONTINUE
  /\ UNCHANGED <<serverVars, turns, now, step, booking,
                 weatherRecommendationGiven, lastWeatherCheck, bookingNo,
                 handler, net, heard, outcome, edits>>

\* startFreshBooking (the Start New button): resetBooking, then startBooking
StartFreshBooking ==
  /\ ContinueChoiceOffered
  /\ bookingNo < MaxSessions
  /\ showContinuePrompt' = FALSE
  /\ booking' = NewBooking
  /\ heard' = Empty
  /\ weatherRecommendationGiven' = FALSE
  /\ lastWeatherCheck' = Null
  /\ bookingNo' = bookingNo + 1
  /\ isActive' = TRUE
  /\ step' = "ASK_NAME"
  /\ spoken' = C_GREETING
  /\ UNCHANGED <<serverVars, turns, now, handler, net, outcome, edits>>

NextResumed ==
  \/ Next
  \/ ConfirmationSpeech
  \/ ContinueBooking
  \/ StartFreshBooking

SpecResumed == InitResumed /\ [][NextResumed]_vars

\* ------------------------------------------------- saving the booking
C_SAVING == "Perfect! Let me save your booking..."
C_SAVED ==
  "Wonderful! Your table has been successfully booked. We look forward to serving you. Have a great day!"
C_SAVE_FAILED ==
  "I apologize, but there was an error saving your booking. Please try again."

\* models/Booking.js: the values of the cuisinePreference enum
CuisineNames ==
  {"Italian", "Chinese", "Indian", "Mexican", "French", "Mediterranean",
   "Thai", "Other"}

\* models/Booking.js, numberOfGuests: { type: Number, min: 1 }: the guest
\* counts that pass
GuestCounts == {"#1", "#2", "#3", "#4"}

\* models/Booking.js: the documents Booking.create rejects whatever the
\* version of the validators: a required field that is missing, a guest
\* count below 1, or a value outside an enum.  The empty string and null in
\* an enum field are left to the validators.
MustReject(doc) ==
  \/ ~Truthy(doc.customerName)
  \/ doc.numberOfGuests \notin GuestCounts
  \/ doc.cuisinePreference \notin CuisineNames \cup {Null, Empty}
  \/ doc.seatingPreference \notin {"indoor", "outdoor", Null, Empty}

\* createBooking: Booking.create(req.body) answers 201, or 400 from the
\* catch (validation failed, or the database gave an error)
CreateStatuses(doc) == IF MustReject(doc) THEN {400} ELSE {201, 400}

\* what handleConfirmation does with an answer at the final step that names
\* no seating: "change", "reprocess" (change, and the message names a
\* field), "save", or "unclear"
FinalReply_NeverSaves(transcript) ==
  IF userWantsToChange(transcript)
  THEN IF NamesField(transcript) THEN "reprocess" ELSE "change"
  ELSE "unclear"

\* a final step that tests the affirmation before the change intent
FinalReply_AffirmationFirst(transcript) ==
  IF isPositive(transcript) THEN "save"
  ELSE IF userWantsToChange(transcript)
    THEN IF NamesField(transcript) THEN "reprocess" ELSE "change"
  ELSE "unclear"

FinalReply(transcript) ==
  IF userWantsToChange(transcript)
  THEN IF NamesField(transcript) THEN "reprocess" ELSE "change"
  ELSE IF isPositive(transcript) THEN "save"
  ELSE "unclear"

\* the cap on the rounds of the timer of processWithGemini(userMessage)
MaxRepeats == 2

\* what the user may answer at the final step
FinalAnswers == {U_YES, U_CHANGE_DATE, U_YES_CHANGE_DATE}

\* handleUserSpeech at CONFIRM_DETAILS for the answers that save the booking
\* or hand the message to processWithGemini again: handleConfirmation, then
\* moveTo(SAVE_BOOKING) and saveBookingToServer up to the await of the POST,
\* whose body is the booking of the render in which the answer arrived
FinalAnswer ==
  /\ isActive
  /\ handler = Idle
  /\ net = NoNet
  /\ step = "CONFIRM_DETAILS"
  /\ \E transcript \in FinalAnswers :
       /\ SavesOrReprocesses(transcript)
       /\ heard' = transcript
       /\ IF FinalReply(transcript) = "save"
          THEN /\ step' = "SAVE_BOOKING"
               /\ spoken' = C_SAVING
               /\ handler' = [pc |-> "save"]
               /\ net' = [kind |-> "bookings", body |-> booking]
               /\ UNCHANGED weatherRecommendationGiven
          ELSE /\ spoken' = C_WHAT_TO_CHANGE
               /\ step' = "ASK_NAME"
               /\ weatherRecommendationGiven' = FALSE
               /\ handler' = [pc |-> "toReprocess", userMessage |-> transcript,
                              rounds |-> 1]
               /\ net' = NoNet
  /\ UNCHANGED <<serverVars, turns, now, booking, lastWeatherCheck, isActive,
                 bookingNo, outcome, edits, showContinuePrompt>>

\* setTimeout(() => processWithGemini(userMessage), 600) fires: the function
\* is the one of the render in which the answer arrived, its step is still
\* CONFIRM_DETAILS, and the message goes to handleConfirmation again
ReprocessTimer ==
  /\ handler.pc = "toReprocess"
  /\ handler.rounds < MaxRepeats
  /\ spoken' = C_WHAT_TO_CHANGE
  /\ step' = "ASK_NAME"
  /\ weatherRecommendationGiven' = FALSE
  /\ handler' = [handler EXCEPT !.rounds = @ + 1]
  /\ UNCHANGED <<serverVars, turns, now, booking, lastWeatherCheck, isActive,
                 bookingNo, net, heard, outcome, edits, showContinuePrompt>>

\* the Confirm & Save Booking button of the form: moveTo(SAVE_BOOKING)
ConfirmAndSave ==
  /\ isActive
  /\ handler = Idle
  /\ net = NoNet
  /\ step = "CONFIRM_DETAILS"
  /\ edits < MaxEdits
  /\ edits' = edits + 1
  /\ step' = "SAVE_BOOKING"
  /\ spoken' = C_SAVING
  /\ handler' = [pc |-> "save"]
  /\ net' = [kind |-> "bookings", body |-> booking]
  /\ UNCHANGED <<serverVars, turns, now, booking, weatherRecommendationGiven,
                 lastWeatherCheck, isActive, bookingNo, heard, outcome,
                 showContinuePrompt>>

\* what the user may choose in the form during the weather step and at the
\* final step
ConfirmationEdits ==
  {<<"customerName", Empty>>, <<"seatingPreference", Empty>>,
   <<"seatingPreference", "indoor">>, <<"seatingPreference", "outdoor">>}

\* handleFieldChange during the weather step and at the final step
ConfirmationEdit ==
  /\ isActive
  /\ step \in BusySteps
  /\ edits < MaxEdits
  /\ \E e \in ConfirmationEdits : booking' = [booking EXCEPT ![e[1]] = e[2]]
  /\ edits' = edits + 1
  /\ UNCHANGED <<serverVars, turns, now, step, weatherRecommendationGiven,
                 lastWeatherCheck, isActive, bookingNo, handler, net, spoken,
                 heard, outcome, showContinuePrompt>>

\* router.post("/", createBooking): the POST in flight is answered
BookingsServer ==
  /\ net.kind = "bookings"
  /\ \E status \in CreateStatuses(net.body) :
       /\ call' = [op |-> "createBooking", body |-> net.body,
                   status |-> status]
       /\ net' = [kind |-> "response", status |-> status]
  /\ UNCHANGED <<conversations, inflight, turns, now, step, booking,
                 weatherRecommendationGiven, lastWeatherCheck, isActive,
                 bookingNo, handler, spoken, heard, outcome, edits,
                 showContinuePrompt>>

\* saveBookingToServer after the await of the POST
SaveReceive ==
  /\ handler.pc = "save"
  /\ net.kind = "response"
  /\ IF net.status = 201
     THEN /\ step' = "COMPLETE"
          /\ spoken' = C_SAVED
          /\ outcome' = "saved"
          /\ handler' = [pc |-> "toReset"]
     ELSE /\ spoken' = C_SAVE_FAILED
          /\ outcome' = "saveFailed"
          /\ handler' = [pc |-> "toRetry"]
          /\ UNCHANGED step
  /\ net' = NoNet
  /\ UNCHANGED <<serverVars, turns, now, booking, weatherRecommendationGiven,
                 lastWeatherCheck, isActive, bookingNo, heard, edits,
                 showContinuePrompt>>

\* setTimeout(() => resetBooking(), 5000) fires
ResetTimer ==
  /\ handler.pc = "toReset"
  /\ bookingNo < MaxSessions
  /\ step' = "IDLE"
  /\ booking' = NewBooking
  /\ heard' = Empty
  /\ isActive' = FALSE
  /\ weatherRecommendationGiven' = FALSE
  /\ lastWeatherCheck' = Null
  /\ bookingNo' = bookingNo + 1
  /\ handler' = Idle
  /\ UNCHANGED <<serverVars, turns, now, net, spoken, outcome, edits,
                 showContinuePrompt>>

\* setTimeout(() => setStep(STEPS.CONFIRM_DETAILS), 2000) fires
RetryTimer ==
  /\ handler.pc = "toRetry"
  /\ step' = "CONFIRM_DETAILS"
  /\ handler' = Idle
  /\ UNCHANGED <<serverVars, turns, now, booking, weatherRecommendationGiven,
                 lastWeatherCheck, isActive, bookingNo, net, spoken, heard,
                 outcome, edits, showContinuePrompt>>

\* the session found in localStorage: saved at the final confirmation
ConfirmationSession ==
  [step |-> "CONFIRM_DETAILS",
   booking |-> [SavedBooking EXCEPT !.weatherInfo = "Clear",
                                    !.seatingPreference = "outdoor"],
   weatherRecommendationGiven |-> TRUE,
   lastWeatherCheck |-> [date |-> DateStr(Today + 1), time |-> TimeStr(1)]]

InitFinal ==
  /\ step = ConfirmationSession.step
  /\ booking = ConfirmationSession.booking
  /\ weatherRecommendationGiven = ConfirmationSession.weatherRecommendationGiven
  /\ lastWeatherCheck = ConfirmationSession.lastWeatherCheck
  /\ showContinuePrompt = TRUE
  /\ conversations = SavedStore
  /\ call = NoCall
  /\ turns = 0
  /\ isActive = TRUE
  /\ bookingNo = 1
  /\ handler = Idle
  /\ net = NoNet
  /\ spoken = Empty
  /\ heard = Empty
  /\ outcome = "none"
  /\ edits = 0
  /\ inflight = NoneInFlight
  /\ now = 1

NextFinal ==
  \/ NextResumed
  \/ FinalAnswer
  \/ ReprocessTimer
  \/ ConfirmAndSave
  \/ ConfirmationEdit
  \/ BookingsServer
  \/ SaveReceive
  \/ ResetTimer
  \/ RetryTimer

SpecFinal == InitFinal /\ [][NextFinal]_vars

\* every timer fires and every request is answered in the end; the user and
\* the clock go on as long as they can
SpecFinalFair == SpecFinal /\ WF_vars(NextFinal)

\* ------------------------------------------------ the pure functions alone
\* slot sets tried by the completeness check: per required field null, the
\* falsy non-null value of its type, and an ordinary value
ProbeSlots ==
  {[NewBookingData EXCEPT !.customerName = n, !.numberOfGuests = g,
                          !.bookingDate = d, !.bookingTime = t,
                          !.cuisinePreference = c] :
     n \in {Null, Empty, "Ann"}, g \in {Null, Zero, "#2"},
     d \in {Null, Empty, DateStr(Today)}, t \in {Null, Empty, TimeStr(1)},
     c \in {Null, "Thai"}}

\* a date is checked by the client and by the route
CheckDate ==
  /\ \E today \in 0..MaxToday, d \in (0 - 2)..MaxDay :
       call' = [op |-> "checkDate", today |-> today, date |-> DateStr(d),
                verdict |-> ValidateDate(DateStr(d), today),
                routeAllows |-> WeatherDateAllowed(DateStr(d), today)]
  /\ UNCHANGED <<inflight, conversations, turns, now, clientVars>>

\* a slot set is tested for completeness
CheckComplete ==
  /\ \E data \in ProbeSlots :
       call' = [op |-> "isBookingComplete", data |-> data,
                result |-> isBookingComplete(data),
                missingFields |-> getMissingFields(data)]
  /\ UNCHANGED <<inflight, conversations, turns, now, clientVars>>

\* temperatures, precipitation probabilities and weather entries tried by
\* the seating check; NaN stands for a missing number
ProbeTemps == {NaN, 9, 10, 17, 18, 25, 30, 31, 38, 39}
ProbePops == {NaN, 0, 10, 40, 41}
ProbeWeather ==
  {<<>>,
   <<[main |-> "Rain", description |-> "light rain"]>>,
   <<[main |-> "drizzle", description |-> "clear sky"]>>,
   <<[main |-> "Snow", description |-> Empty]>>,
   <<[main |-> "Thunderstorm", description |-> "few clouds"]>>,
   <<[main |-> "Clear", description |-> "clear sky"]>>,
   <<[main |-> "Clouds", description |-> "Scattered Clouds"]>>,
   <<[main |-> "Clouds", description |-> "cloudy"]>>,
   <<[main |-> "Mist", description |-> "mist"]>>,
   <<[main |-> Empty, description |-> "few clouds"]>>}

\* the normalized samples tried, and no sample
ProbeSamples ==
  {[dt |-> 0, temp |-> t, feels_like |-> t, weather |-> w, pop |-> p] :
     t \in ProbeTemps, w \in ProbeWeather, p \in ProbePops}
  \cup {NoForecast}

\* a seating recommendation is computed
CheckSeating ==
  /\ \E sample \in ProbeSamples :
       call' = [op |-> "recommendSeating", sample |-> sample,
                result |-> recommendSeating(sample),
                again |-> recommendSeating(sample)]
  /\ UNCHANGED <<inflight, conversations, turns, now, clientVars>>

\* the forecast entries tried by the matcher: two entries equally far from
\* slot 2, told apart by their temperature, a later one, one without dt
ProbeEntry(dt, temp, main, description) ==
  [dt |-> dt, temp |-> temp, feels_like |-> temp,
   weather |-> <<[main |-> main, description |-> description]>>, pop |-> 10]

ProbeEntries ==
  {ProbeEntry(1, 25, "Clear", "clear sky"),
   ProbeEntry(3, 24, "Rain", "light rain"),
   ProbeEntry(3, 25, "Clear", "clear sky"),
   ProbeEntry(7, 20, "Clouds", "few clouds"),
   ProbeEntry(NaN, 25, "Clear", "clear sky")}

\* the sequences of at most n entries
RECURSIVE ListsUpTo(_)
ListsUpTo(n) ==
  IF n = 0 THEN {<<>>}
  ELSE LET shorter == ListsUpTo(n - 1)
       IN  shorter \cup {Append(l, e) : l \in shorter, e \in ProbeEntries}

\* the booking dates and times of the target; "7pm" is no HH:MM time
ProbeTargetDates == {DateStr(Today), DateStr(Today + 1), Empty}
ProbeTargetTimes == {TimeStr(2), TimeStr(4), "7pm"}

\* the closest forecast entry is looked up
CheckForecast ==
  /\ \E list \in ListsUpTo(MaxSamples), d \in ProbeTargetDates,
        t \in ProbeTargetTimes :
       call' = [op |-> "findClosestForecast", list |-> list,
                bookingDate |-> d, bookingTime |-> t,
                result |-> findClosestForecast(list, d, t)]
  /\ UNCHANGED <<inflight, conversations, turns, now, clientVars>>

\* what the fetch of the forecast may do
ProbeFetches == {FetchFailed} \cup {Fetched(l) : l \in ListsUpTo(1)}

\* the weather service is called
CheckWeatherService ==
  /\ \E fetch \in ProbeFetches,
        d \in {DateStr(Today), DateStr(Today + BOOKING_WINDOW + 1)},
        t \in ProbeTargetTimes :
       call' = [op |-> "getWeatherAndRecommendation", fetch |-> fetch,
                bookingDate |-> d, bookingTime |-> t,
                result |-> getWeatherAndRecommendation(fetch, d, t, Today)]
  /\ UNCHANGED <<inflight, conversations, turns, now, clientVars>>

NextPure ==
  \/ CheckDate
  \/ CheckComplete
  \/ CheckSeating
  \/ CheckForecast
  \/ CheckWeatherService

SpecPure == InitApi /\ [][NextPure]_vars

\* ================================================================ properties
InWindow(d, today) == today <= d /\ d <= today + BOOKING_WINDOW

\* a slot value that is unset or a date of the booking window
UnsetOrInWindow(v) ==
  ~Truthy(v) \/ InWindow(ParseDate(v), Today)

\* the field a message of the conversation service asks for, or "none"
AskedField(m) ==
  CASE m \in {R_ASK_NAME, F_ASK_NAME} -> "customerName"
    [] m \in {R_ASK_GUESTS, F_ASK_GUESTS} -> "numberOfGuests"
    [] m \in {R_ASK_DATE, F_ASK_DATE} -> "bookingDate"
    [] m \in {R_ASK_TIME, F_ASK_TIME} -> "bookingTime"
    [] m = R_ASK_CUISINE -> "cuisinePreference"
    [] m = R_ASK_SPECIAL -> "specialRequests"
    [] OTHER -> "none"

\* the messages that tell the user that everything has been collected
AllSetMessages == {R_ALL_SET, F_CONFIRM}

\* C1: no out-of-window bookingDate is ever held in a session's stored
\* slots, neither in the bookingData the conversation service keeps nor in
\* the client's booking, whatever the extraction returned.
C1_StoredDatesInWindow ==
  /\ \A sid \in DOMAIN conversations :
       UnsetOrInWindow(conversations[sid].bookingData.bookingDate)
  /\ UnsetOrInWindow(booking.bookingDate)

\* C2: two consecutive assistant messages of a session never ask for the
\* same field (the conversation service rejects nothing, so no rejection
\* lies between them).
C2_NoRepeatedQuestion ==
  \A sid \in DOMAIN conversations :
    LET h == conversations[sid].history
    IN  \A i \in 1..Len(h) :
          (/\ i + 2 <= Len(h)
           /\ h[i].role = "assistant"
           /\ h[i + 1].role = "user"
           /\ h[i + 2].role = "assistant"
           /\ AskedField(h[i].message) # "none")
          => AskedField(h[i + 2].message) # AskedField(h[i].message)

ChatReceived ==
  /\ handler.pc = "chat"
  /\ net.kind = "response"
  /\ net.status = 200
  /\ handler'.pc # "chat"

\* C4: when the bookingDate returned in a turn is rejected, the step after
\* the turn is ASK_DATE and the client's booking is what it was before the
\* turn: its bookingDate is kept and no returned field is merged.
C4_RejectedDatePinsAndMergesNothing ==
  [][(/\ ChatReceived
      /\ Truthy(net.data.bookingData.bookingDate)
      /\ ~InWindow(ParseDate(net.data.bookingData.bookingDate), Today))
     => (/\ step' = "ASK_DATE"
         /\ booking' = booking
         /\ spoken' \in {C_PAST_DATE, C_TOO_FAR})]_vars

\* a turn returned a name together with a date beyond the window: the date
\* typed into the form before is still there and the name is not merged
C4_Witness ==
  /\ outcome = "tooFarFuture"
  /\ step = "ASK_DATE"
  /\ spoken = C_TOO_FAR
  /\ booking.bookingDate = DateStr(Today + 1)
  /\ booking.customerName = Empty

\* C5: a returned bookingTime at or before the clock is rejected when the
\* returned bookingDate is today: bookingTime is the empty string after the
\* turn and the time is asked for again; for a later day of the window the
\* returned time is never rejected but merged.
C5_TimeOfTodayMustBeAhead ==
  [][(/\ ChatReceived
      /\ Truthy(net.data.bookingData.bookingDate)
      /\ Truthy(net.data.bookingData.bookingTime)
      /\ InWindow(ParseDate(net.data.bookingData.bookingDate), Today))
     => LET d == ParseDate(net.data.bookingData.bookingDate)
            t == ParseTime(net.data.bookingData.bookingTime)
        IN  /\ (d = Today /\ t <= now)
               => (/\ booking'.bookingTime = Empty
                   /\ spoken' = C_TIME_PASSED)
            /\ (d > Today)
               => (/\ booking'.bookingTime = net.data.bookingData.bookingTime
                   /\ spoken' # C_TIME_PASSED)]_vars

\* a time of today equal to the clock reading was rejected
C5_Witness ==
  /\ outcome = "timeInPast"
  /\ spoken = C_TIME_PASSED
  /\ booking.bookingTime = Empty
  /\ now = 1

\* a turn of the session API has just returned
TurnReturned == call.op = "turn"

\* C6: after a turn every slot absent from the extraction result, or null in
\* it, has its pre-turn value and every other slot has the returned value.
C6_MergePerField ==
  (TurnReturned /\ call.outcome.kind = "ok") =>
    \A f \in SlotNames :
      conversations[call.sessionId].bookingData[f] =
        IF f \in DOMAIN call.outcome.parsed /\ call.outcome.parsed[f] # Null
        THEN call.outcome.parsed[f]
        ELSE call.before.bookingData[f]

\* a turn returned a time alone: the name collected before is kept next to
\* the new time
C6_Witness ==
  /\ TurnReturned
  /\ call.outcome.kind = "ok"
  /\ DOMAIN call.outcome.parsed = {"bookingTime"}
  /\ call.before.bookingData.customerName = "Ann"
  /\ conversations[call.sessionId].bookingData.customerName = "Ann"
  /\ conversations[call.sessionId].bookingData.bookingTime = TimeStr(1)

\* C7: a turn whose extraction call failed or whose output could not be
\* parsed leaves the slots of the session as they were before the turn.
C7_FailedExtractionMergesNothing ==
  (TurnReturned /\ call.outcome.kind \in {"callFailed", "unparsable"}) =>
    /\ conversations[call.sessionId].bookingData = call.before.bookingData
    /\ call.result.bookingData = call.before.bookingData

\* the output of the second turn could not be parsed: the name and the
\* guests of the first turn are still there
C7_Witness ==
  /\ TurnReturned
  /\ call.outcome.kind = "unparsable"
  /\ call.before.bookingData.customerName = "Ann"
  /\ conversations[call.sessionId].bookingData.customerName = "Ann"

C9_CompleteIffNonNull ==
  call.op = "isBookingComplete" =>
    (call.result <=>
       \A i \in 1..Len(RequiredFields) : call.data[RequiredFields[i]] # Null)

\* C9: isBookingComplete is true exactly when the four required fields are
\* truthy (not null, not the empty string, not 0), whatever the optional
\* fields hold; getMissingFields is empty in exactly these cases.
C9_CompleteIffTruthy ==
  call.op = "isBookingComplete" =>
    /\ call.result <=>
         \A i \in 1..Len(RequiredFields) : Truthy(call.data[RequiredFields[i]])
    /\ call.result <=> (call.missingFields = <<>>)

\* zero guests: no required field is null, and the booking is not complete
C9_Witness ==
  /\ call.op = "isBookingComplete"
  /\ call.data.numberOfGuests = Zero
  /\ Truthy(call.data.customerName)
  /\ Truthy(call.data.bookingDate)
  /\ Truthy(call.data.bookingTime)
  /\ call.data.cuisinePreference = Null
  /\ ~call.result

\* C10: the reply of a turn in which the user is not modifying asks for the
\* first missing required field; with no required field missing it asks for
\* the first missing optional field; it says that all is set only when no
\* field is missing.
C10_NextPromptByPriority ==
  (TurnReturned /\ ~call.threw /\ ~isModifying(call.userMessage)) =>
    LET missingFields == getMissingFields(call.result.bookingData)
        optionalFields == getOptionalMissingFields(call.result.bookingData)
        response == call.result.response
    IN  /\ Len(missingFields) > 0 => AskedField(response) = missingFields[1]
        /\ (Len(missingFields) = 0 /\ Len(optionalFields) > 0)
             => AskedField(response) = optionalFields[1]
        /\ response \in AllSetMessages
             => (Len(missingFields) = 0 /\ Len(optionalFields) = 0)

\* the same statement for the turns whose response call answered
C10_GeneratedPromptByPriority ==
  call.op = "turn" /\ call.generated => C10_NextPromptByPriority

\* a sample whose main condition is rain, drizzle, snow or thunderstorm
WetSample(sample) ==
  /\ sample.weather # <<>>
  /\ Occurs(sample.weather[1].main)
       \cap {"rain", "drizzle", "snow", "thunderstorm"} # {}

\* a sample whose description names clear sky or clouds
PleasantDescription(sample) ==
  /\ sample.weather # <<>>
  /\ sample.weather[1].description
       \in {"clear sky", "few clouds", "Scattered Clouds", "overcast clouds"}

C15_WetMeansIndoor ==
  (call.op = "recommendSeating" /\ call.sample # NoForecast
   /\ WetSample(call.sample))
    => call.result = "indoor"

\* a rain condition at a pleasant temperature with a clear description and
\* a low precipitation probability
C15_Witness ==
  /\ call.op = "recommendSeating"
  /\ call.sample # NoForecast
  /\ call.sample.weather = <<[main |-> "drizzle", description |-> "clear sky"]>>
  /\ call.sample.temp = 25
  /\ call.sample.pop = 10
  /\ call.result = "indoor"

DescriptionAsWorded(sample) ==
  /\ sample.weather # <<>>
  /\ sample.weather[1].description \in {"clear sky", "few clouds", "cloudy"}

CallTarget == TargetEpoch(call.bookingDate, call.bookingTime)
CallDistance(i) == AbsDiff(call.list[i].dt, CallTarget)

\* C17: when the target date-time is one and some entry has a timestamp,
\* findClosestForecast returns an entry of the list at minimal distance from
\* the target, and of the equally close ones the first in the list.
C17_ClosestFirstOnTies ==
  (/\ call.op = "findClosestForecast"
   /\ CallTarget # NaN
   /\ \E i \in 1..Len(call.list) : call.list[i].dt # NaN)
    => \E i \in 1..Len(call.list) :
         /\ call.result = call.list[i]
         /\ CallDistance(i) # NaN
         /\ \A j \in 1..Len(call.list) :
              CallDistance(j) # NaN =>
                /\ CallDistance(i) <= CallDistance(j)
                /\ CallDistance(j) = CallDistance(i) => i <= j

\* the entries at slots 1 and 3 are equally far from slot 2; the first of
\* them, not the last, is returned
C17_Witness ==
  /\ call.op = "findClosestForecast"
  /\ CallTarget = 2
  /\ Len(call.list) = 2
  /\ call.list[1].dt = 3
  /\ call.list[2].dt = 1
  /\ call.result = call.list[1]

\* C18: findClosestForecast returns no entry for the empty list and an entry
\* for every list that is not empty.
C18_NoneOnlyForEmptyList ==
  call.op = "findClosestForecast" =>
    (call.result = NoForecast <=> call.list = <<>>)

\* the chat handler merged the response of a turn into the booking
ChatMerged == ChatReceived /\ outcome' = "merged"

\* the weather check is dispatched: the engine is at the weather step and
\* the weather request is in flight
WeatherDispatched ==
  /\ step' = "FETCH_WEATHER"
  /\ handler'.pc = "weather"
  /\ net'.kind = "request"
  /\ net'.message = W_GET_WEATHER

\* the fields a booking has set, of the six the conversation collects
FieldsSet(b) ==
  {f \in {"customerName", "numberOfGuests", "bookingDate", "bookingTime",
          "cuisinePreference", "specialRequests"} : Truthy(b[f])}

C12_WeatherRequestUsesMergedSlots ==
  [][(ChatMerged /\ WeatherDispatched) =>
       /\ net'.bookingData.bookingDate = booking'.bookingDate
       /\ net'.bookingData.bookingTime = booking'.bookingTime
       /\ net'.bookingData.location = booking'.location]_vars

\* the step gives the field of the booking a value, and another than before
SetToAnother(f) == Truthy(booking'[f]) /\ booking'[f] # booking[f]

WeatherReceived ==
  /\ handler.pc = "weather"
  /\ net.kind = "response"
  /\ handler'.pc # "weather"

WeatherStepReply ==
  /\ step = "FETCH_WEATHER"
  /\ isActive
  /\ handler = Idle
  /\ net = NoNet
  /\ heard' \in Replies
  /\ <<now', edits', bookingNo'>> = <<now, edits, bookingNo>>
  /\ <<heard', spoken', booking', handler'>> # <<heard, spoken, booking, handler>>

\* C20: at the weather step an answer with a seating word or an affirmation
\* arms the move to the final confirmation, which then sets the step; an
\* answer with a seating word sets seatingPreference to that seating, also
\* when it holds an affirmative word; an answer without one leaves the
\* booking as it is.
C20_SeatingBeforeAffirmation ==
  [][/\ WeatherStepReply =>
          /\ (isSeatingIndoor(heard') \/ isSeatingOutdoor(heard')
              \/ isPositive(heard'))
               <=> handler'.pc = "toConfirm"
          /\ (isSeatingIndoor(heard') /\ ~isSeatingOutdoor(heard'))
               => booking'.seatingPreference = "indoor"
          /\ (isSeatingOutdoor(heard') /\ ~isSeatingIndoor(heard'))
               => booking'.seatingPreference = "outdoor"
          /\ (~isSeatingIndoor(heard') /\ ~isSeatingOutdoor(heard'))
               => booking' = booking
          /\ step' = step
     /\ (handler.pc = "toConfirm" /\ handler' # handler)
          => step' = "CONFIRM_DETAILS"]_vars

\* "yes inside sounds good" at the weather step, outdoor recommended: indoor
\* is set and the move to the final confirmation is armed
C20_Witness ==
  /\ step = "FETCH_WEATHER"
  /\ heard = U_YES_INSIDE
  /\ isPositive(heard)
  /\ booking.weatherInfo = "Clear"
  /\ booking.seatingPreference = "indoor"
  /\ spoken = C_INDOOR_SET
  /\ handler.pc = "toConfirm"

\* ---------------------------------------------------- the stored guest count
\* a guest count that is a whole number of at least one
PositiveGuests == {"#1", "#2", "#3", "#4"}

\* C27: the numberOfGuests stored for a session is unset or an integer of at
\* least one: an extraction result holding a guest count of 0 is treated as
\* a failed extraction and nothing of it is merged.
C27_StoredGuestsAtLeastOne ==
  \A sid \in DOMAIN conversations :
     conversations[sid].bookingData.numberOfGuests \in {Null} \cup PositiveGuests

\* ------------------------------------------------ the final confirmation
\* the user answers at the final confirmation
FinalStepReply ==
  /\ step = "CONFIRM_DETAILS"
  /\ isActive
  /\ handler = Idle
  /\ net = NoNet
  /\ heard' \in Replies \cup FinalAnswers
  /\ <<now', edits', bookingNo'>> = <<now, edits, bookingNo>>
  /\ <<heard', spoken', booking', handler'>> # <<heard, spoken, booking, handler>>

\* the seating a reply names as a whole word
NamedSeating(m) ==
  IF \E i \in 1..Len(Words(m)) : Words(m)[i] \in {"indoor", "inside"}
  THEN "indoor"
  ELSE IF \E i \in 1..Len(Words(m)) : Words(m)[i] \in {"outdoor", "outside"}
  THEN "outdoor"
  ELSE Empty

\* C28: at the final confirmation a reply naming indoor/inside or
\* outdoor/outside changes seatingPreference and nothing else: the other
\* slots and weatherRecommendationGiven stay, no request is sent and no
\* session turn is run, the step stays, and the confirmation is read again.
C28_SeatingReplyChangesSeatingOnly ==
  [][/\ (FinalStepReply /\ NamedSeating(heard') # Empty)
          => /\ booking' =
                  [booking EXCEPT !.seatingPreference = NamedSeating(heard')]
             /\ weatherRecommendationGiven' = weatherRecommendationGiven
             /\ lastWeatherCheck' = lastWeatherCheck
             /\ step' = "CONFIRM_DETAILS"
             /\ net' = NoNet
             /\ <<conversations', call', turns'>> = <<conversations, call, turns>>
             /\ handler' = [pc |-> "toConfirm"]
     /\ (step = "CONFIRM_DETAILS" /\ handler.pc = "toConfirm"
         /\ handler' # handler)
          => /\ step' = "CONFIRM_DETAILS"
             /\ spoken' = C_CONFIRM
             /\ booking' = booking
             /\ weatherRecommendationGiven' = weatherRecommendationGiven]_vars

\* outdoor was recommended and accepted; at the final confirmation the user
\* said "yes inside sounds good": indoor is set, the flag is still set, and
\* the confirmation has been read again
C28_Witness ==
  /\ step = "CONFIRM_DETAILS"
  /\ heard = U_YES_INSIDE
  /\ spoken = C_CONFIRM
  /\ handler = Idle
  /\ booking.seatingPreference = "indoor"
  /\ booking.weatherInfo = "Clear"
  /\ booking.customerName = "Ann"
  /\ weatherRecommendationGiven
  /\ turns = 0

\* ------------------------------------------------ a saved session at load
\* C29: when the page is loaded with a saved session whose step is neither
\* IDLE nor COMPLETE, the choice between continuing and starting anew is
\* offered before the conversation resumes: no utterance is taken into the
\* conversation while the choice is still unanswered.
C29_ChoiceBeforeResuming ==
  [][(heard' # heard /\ heard' # Empty) => ~showContinuePrompt]_vars

\* C21: at the final confirmation an answer with a recognized change intent
\* returns to collecting details and sends nothing to be saved; an
\* affirmative answer without one starts saving: the step becomes
\* SAVE_BOOKING and the booking is posted; when the server answers 201 the
\* step becomes COMPLETE.  (Answers naming a seating are the subject of C28.)
C21_AffirmationSavesChangeReturns ==
  [][/\ (FinalStepReply /\ NamedSeating(heard') = Empty
         /\ userWantsToChange(heard'))
          => /\ step' = "ASK_NAME"
             /\ net' = NoNet
             /\ call' = call
             /\ handler'.pc # "save"
     /\ (FinalStepReply /\ NamedSeating(heard') = Empty
         /\ ~userWantsToChange(heard') /\ isPositive(heard'))
          => /\ step' = "SAVE_BOOKING"
             /\ handler'.pc = "save"
             /\ net' = [kind |-> "bookings", body |-> booking]
     /\ (handler.pc = "save" /\ handler' # handler /\ net.status = 201)
          => step' = "COMPLETE"]_vars

\* the user said "yes" at the final confirmation and the booking was stored
C21_Witness ==
  /\ heard = U_YES
  /\ step = "COMPLETE"
  /\ call.op = "createBooking"
  /\ call.status = 201
  /\ call.body.customerName = "Ann"
  /\ outcome = "saved"

\* C22: at the final confirmation an answer with a change intent that names
\* a field goes straight to the extraction for that field: the message is
\* posted to the session, and the generic question what to change is not
\* asked.
C22_NamedFieldSkipsGenericPrompt ==
  [][(FinalStepReply /\ NamedSeating(heard') = Empty
      /\ userWantsToChange(heard') /\ NamesField(heard'))
       => /\ spoken' # C_WHAT_TO_CHANGE
          /\ net'.kind = "request"
          /\ net'.message = heard']_vars

\* the four fields a booking must have
RequiredSet(b) ==
  \A f \in {"customerName", "numberOfGuests", "bookingDate", "bookingTime"} :
     Truthy(b[f])

\* C26: whenever the booking is posted to be stored, the body holds the four
\* required fields, all set, and a seatingPreference that is "indoor" or
\* "outdoor", whatever voice turns and manual edits came before.
C26_PayloadCompleteWithSeating ==
  net.kind = "bookings" =>
    /\ RequiredSet(net.body)
    /\ net.body.seatingPreference \in {"indoor", "outdoor"}

\* C25: once a booking has ended, stored or cancelled, the session kept for
\* its sessionId is destroyed: in the end the conversation store holds no
\* session under that id.
C25_EndedSessionIsCleared ==
  \A n \in 1..MaxBookings :
     [](bookingNo > n => <>(SessionNames[n] \notin DOMAIN conversations))

\* the seating the weather response recommends, as fetchWeatherAndRespond
\* announces it
AnnouncedSeating(data) ==
  IF "seatingRecommendation" \in DOMAIN data
     /\ data.seatingRecommendation \notin {Null, Empty}
  THEN data.seatingRecommendation
  ELSE "indoor"

\* C30: when the user accepts the weather recommendation with a generic
\* affirmation, the seatingPreference taken to the final confirmation is the
\* seating just recommended, also when a seating was stored before: the
\* response sets seatingPreference to the recommended seating, and the
\* affirmation leaves it as it is.
C30_AffirmedSeatingIsRecommended ==
  [][/\ (WeatherReceived /\ net.status = 200)
          => booking'.seatingPreference = AnnouncedSeating(net.data)
     /\ (WeatherStepReply /\ NamedSeating(heard') = Empty
         /\ isPositive(heard'))
          => /\ booking' = booking
             /\ handler'.pc = "toConfirm"]_vars

\* ------------------------------------------- overlapping turns, sessions
\* a call of processConversationTurn merged its extraction result in this step
MergeStep ==
  /\ call'.op = "merge"
  /\ call'.ref = 0
  /\ inflight' # inflight

\* C23: when turns for one sessionId overlap, each merge is applied in one
\* step after the call's own extraction result: every field of the result is
\* stored with the returned value, and every other slot keeps the value the
\* session held just before, the fields merged by the other turn included.
C23_OverlappingMergesLoseNothing ==
  [][MergeStep =>
       LET sid == call'.sessionId
       IN  /\ sid \in DOMAIN conversations
           /\ sid \in DOMAIN conversations'
           /\ \A f \in DOMAIN conversations[sid].bookingData :
                conversations'[sid].bookingData[f] =
                  IF f \in DOMAIN call'.updatedData
                  THEN call'.updatedData[f]
                  ELSE conversations[sid].bookingData[f]
           /\ conversations'[sid].history = conversations[sid].history]_vars

\* two turns of session-1 were both suspended on their extraction; one
\* returned the name, the other the guest count, and the session holds both
C23_Witness ==
  /\ "session-1" \in DOMAIN conversations
  /\ Len(conversations["session-1"].history) = 4
  /\ conversations["session-1"].history[1].role = "user"
  /\ conversations["session-1"].history[2].role = "user"
  /\ conversations["session-1"].bookingData.customerName = "Ann"
  /\ conversations["session-1"].bookingData.numberOfGuests = "#2"
  /\ inflight.turns = <<>>
  /\ call.op = "return"

\* what the Map holds under a sessionId
StoredUnder(store, sid) ==
  IF sid \in DOMAIN store THEN store[sid] ELSE [absent |-> TRUE]

\* C24: sessions are independent: a turn, a clear or a read of one sessionId
\* changes neither the slots nor the transcript stored under another.
C24_SessionsIndependent ==
  [][\A b \in OverlapSessions :
       call'.sessionId # b =>
         StoredUnder(conversations', b) = StoredUnder(conversations, b)]_vars

\* session-1 was cleared while session-2, which holds a name, stayed
C24_Witness ==
  /\ call.op = "clear"
  /\ call.sessionId = "session-1"
  /\ "session-1" \notin DOMAIN conversations
  /\ "session-2" \in DOMAIN conversations
  /\ conversations["session-2"].bookingData.customerName = "Ann"
  /\ Len(conversations["session-2"].history) = 2

\* ------------------------------------------------------------------ C36
\* C36: when clearConversation(id) ran while a turn for id was suspended on an
\* external call, the later steps of that turn (its merge, its reply, its
\* return) leave the Map as it is: they change only the object the turn still
\* holds, so id stays absent until a new turn for id creates a conversation,
\* and a conversation created since is not touched.
C36_ClearedSessionStaysGone ==
  [][(call'.op \in {"merge", "return"} /\ call'.ref > 0)
       => conversations' = conversations]_vars

\* a turn whose session was cleared while it was suspended has returned, and
\* the session is not in the Map
C36_Witness ==
  /\ call.op = "return"
  /\ call.ref > 0
  /\ call.sessionId \notin DOMAIN conversations
  /\ inflight.turns = <<>>
  /\ Len(inflight.orphans[call.ref].history) = 2

C37_RequiredSlotsNeverShrink ==
  TurnReturned =>
    LET before == call.before.bookingData
        after == conversations[call.sessionId].bookingData
    IN  /\ \A f \in {"customerName", "numberOfGuests", "bookingDate",
                     "bookingTime"} :
             Truthy(before[f]) => Truthy(after[f])
        /\ isBookingComplete(before) =>
             isBookingComplete(after) /\ call.result.isComplete

\* ------------------------------------------------------------------ C32
\* C32: a value typed into the form is kept by a later voice turn that does
\* not mention its field: when the response of a turn is merged and the
\* session's slot for the field is still null (no extraction has given the
\* field), the field of the client's booking has the value it had.
C32_ManualValueSurvivesTurn ==
  [][(ChatMerged /\ edits > 0)
       => \A e \in ManualEdits :
            (booking[e[1]] = e[2] /\ net.data.bookingData[e[1]] = Null)
              => booking'[e[1]] = e[2]]_vars

\* ------------------------------------------------------------------ C33
\* C33: whenever weatherRecommendationGiven is true, lastWeatherCheck holds
\* the bookingDate and the bookingTime the booking has now.
C33_RecommendationMatchesBooking ==
  weatherRecommendationGiven =>
    lastWeatherCheck =
      [date |-> booking.bookingDate, time |-> booking.bookingTime]

\* ------------------------------------------------------------------ C39
\* the seating the weather step recommends with the response it got
RecommendedByResponse ==
  IF net.status = 200 /\ "seatingRecommendation" \in DOMAIN net.data
     /\ Truthy(net.data.seatingRecommendation)
  THEN net.data.seatingRecommendation
  ELSE "indoor"

\* C39: the weather step does not overwrite a seatingPreference that is set:
\* when fetchWeatherAndRespond takes up the outcome of its request, a
\* seatingPreference that was set keeps its value, and one that was unset
\* becomes the recommendation.
C39_WeatherKeepsChosenSeating ==
  [][WeatherReceived =>
       booking'.seatingPreference =
         IF Truthy(booking.seatingPreference)
         THEN booking.seatingPreference
         ELSE RecommendedByResponse]_vars

\* ------------------------------------------------------------------ C34
\* C34: at the final confirmation an answer that matches the change pattern
\* and the affirmative pattern is handled as a change request: nothing is
\* posted to be stored and the step does not become SAVE_BOOKING; when the
\* answer names no seating the question what to change is asked, the step
\* becomes ASK_NAME and the weather flag is cleared.
C34_ChangeWinsOverAffirmation ==
  [][(FinalStepReply /\ userWantsToChange(heard') /\ isPositive(heard'))
       => /\ step' # "SAVE_BOOKING"
          /\ handler'.pc # "save"
          /\ net' = NoNet
          /\ call' = call
          /\ NamedSeating(heard') = Empty
               => /\ spoken' = C_WHAT_TO_CHANGE
                  /\ step' = "ASK_NAME"
                  /\ ~weatherRecommendationGiven']_vars

\* "yes but change the date" was answered at the final confirmation: the
\* question what to change was asked and nothing was stored
C34_Witness ==
  /\ heard = U_YES_CHANGE_DATE
  /\ userWantsToChange(heard) /\ isPositive(heard)
  /\ spoken = C_WHAT_TO_CHANGE
  /\ step = "ASK_NAME"
  /\ handler.pc = "toReprocess"
  /\ call.op # "createBooking"
  /\ booking = ConfirmationSession.booking

\* ------------------------------------------------------------------ C35
\* C35: after a change answer naming a field was taken at the final
\* confirmation, the timer armed for it forwards the answer to the session:
\* the message is posted to /api/chat, and the confirmation handler does not
\* run again for it (nothing is spoken and no timer is armed again).
C35_ReprocessForwardsOnce ==
  [][(handler.pc = "toReprocess" /\ handler' # handler)
       => /\ net'.kind = "request"
          /\ net'.message = handler.userMessage
          /\ handler'.pc = "chat"]_vars

\* ------------------------------------------------------------------ C31
\* C31: a rejected date does not make the next turn fail: when the client's
\* last turn ended with its date rejected and the extraction of the turn now
\* answered returned no bookingDate, the response is not rejected: it is
\* merged, and every field the extraction returned is in the booking.
C31_RejectionDoesNotStick ==
  [][(/\ ChatReceived
      /\ outcome \in {"pastDate", "tooFarFuture"}
      /\ call.op = "processConversationTurn"
      /\ call.sessionId = sessionId
      /\ "bookingDate" \notin DOMAIN extractBookingInfo(call.outcome))
     => /\ outcome' = "merged"
        /\ \A f \in DOMAIN extractBookingInfo(call.outcome) :
             booking'[f] = extractBookingInfo(call.outcome)[f]]_vars

====
